---- MODULE Spec2Model ----
(***************************************************************************)
(* Model of src/parser/json-dedup.ts: structural deduplication of a JSON   *)
(* tree into a module text with a string table, shared constant           *)
(* declarations and a root expression.                                     *)
(*                                                                         *)
(* JSON text is modelled by its syntax tree (a "text value"):              *)
(*   <<"null",0>>  <<"bool",b>>  <<"num",n>>  <<"str",s>>                  *)
(*   <<"arr", <<v1,...>> >>   <<"obj", << <<k1,v1>>, ... >> >>            *)
(* and a text that is not JSON by <<"invalid", the text>>.                 *)
(* A value passed in memory is <<"value", cell>>; its cells may also be    *)
(* <<"undefined",0>>, <<"function",name>> and <<"bigint",n>>, and its      *)
(* objects are those the caller holds between the calls (objects), the    *)
(* first nodes of the heap.                                                *)
(* JSON.parse turns it into objects with identity: a heap, a sequence of   *)
(* nodes whose index is the object's identity, and cells that are either   *)
(* primitives or <<"ref", id>>.                                            *)
(***************************************************************************)
EXTENDS Integers, Sequences, FiniteSets, TLC

VARIABLES pc, jsonString, heap, rootValue, hashCache, hashRegistry,
          valueToHash, stringRegistry, sortedDuplicates, serializingValues,
          lines, error, objects, earlier, stats, content, optimised,
          cacheFiles, call, cached, props, jsonSchema, console

vars == <<pc, jsonString, heap, rootValue, hashCache, hashRegistry,
          valueToHash, stringRegistry, sortedDuplicates, serializingValues,
          lines, error, objects, earlier, stats, content,
          optimised, cacheFiles, call, cached, props, jsonSchema, console>>

\* the variables of propsToJsonSchema and the lines written to the console
schemaVars == <<props, jsonSchema, console>>

\* what the callers of the module keep between its calls
callerVars ==
  <<earlier, content, optimised, cacheFiles, call, cached, props, jsonSchema,
    console>>

(***************************************************************************)
(* Bounds of the model                                                     *)
(***************************************************************************)
\* largest number of children of the root of an input
MaxWidth == 4

(***************************************************************************)
(* Generic helpers                                                         *)
(***************************************************************************)
SeqContains(s, x) == \E i \in 1..Len(s) : s[i] = x

\* 1-based position of the first x in s, 0 when absent
IndexOf(s, x) ==
  IF SeqContains(s, x)
  THEN CHOOSE i \in 1..Len(s) : s[i] = x /\ \A j \in 1..(i - 1) : s[j] # x
  ELSE 0

\* the value of an expression, computed once for the definitions that use it
the(values) == CHOOSE value \in values : TRUE

RECURSIVE sumOver(_)
sumOver(ns) == IF ns = <<>> THEN 0 ELSE Head(ns) + sumOver(Tail(ns))

RECURSIVE concat(_)
\* the concatenation of a sequence of sequences
concat(seqs) == IF seqs = <<>> THEN <<>> ELSE Head(seqs) \o concat(Tail(seqs))

RECURSIVE join(_, _)
\* Array.prototype.join on a sequence of strings
join(parts, sep) ==
  IF parts = <<>> THEN ""
  ELSE IF Len(parts) = 1 THEN parts[1]
  ELSE parts[1] \o sep \o join(Tail(parts), sep)

(***************************************************************************)
(* Strings: the model's strings are TLA+ strings; charCodes gives the      *)
(* UTF-16 code units that str.charCodeAt(i) returns for each of them.      *)
(***************************************************************************)
charCodes(s) ==
  CASE s = "" -> <<>>
    [] s = "a" -> <<97>>
    [] s = "b" -> <<98>>
    [] s = "c" -> <<99>>
    [] s = "n" -> <<110>>
    [] s = "x" -> <<120>>
    [] s = "y" -> <<121>>
    [] s = "z" -> <<122>>
    [] s = "items" -> <<105, 116, 101, 109, 115>>
    [] s = "common" -> <<99, 111, 109, 109, 111, 110>>
    [] s = "rare" -> <<114, 97, 114, 101>>
    [] s = "costarring" -> <<99, 111, 115, 116, 97, 114, 114, 105, 110, 103>>
    [] s = "liquid" -> <<108, 105, 113, 117, 105, 100>>
    [] s = "a:num:1,b" -> <<97, 58, 110, 117, 109, 58, 49, 44, 98>>
    [] s = "__proto__" -> <<95, 95, 112, 114, 111, 116, 111, 95, 95>>
    [] s = "[]" -> <<91, 93>>

\* the strings of the model: the keys and the string values of its inputs
Strings ==
  {"", "a", "b", "c", "n", "x", "y", "z", "items", "common", "rare",
   "costarring", "liquid", "a:num:1,b", "__proto__", "[]"}

\* left-to-right comparison of code units: the default order of Array.sort
RECURSIVE codesLess(_, _)
codesLess(a, b) ==
  IF b = <<>> THEN FALSE
  ELSE IF a = <<>> THEN TRUE
  ELSE IF Head(a) # Head(b) THEN Head(a) < Head(b)
  ELSE codesLess(Tail(a), Tail(b))

stringLess(s, t) == codesLess(charCodes(s), charCodes(t))

RECURSIVE insertSorted(_, _)
insertSorted(sorted, k) ==
  IF sorted = <<>> THEN <<k>>
  ELSE IF stringLess(k, Head(sorted)) THEN <<k>> \o sorted
  ELSE <<Head(sorted)>> \o insertSorted(Tail(sorted), k)

\* sortKeys without the sort of line 64: the keys in insertion order
sortKeysUnsorted(keys) == keys

RECURSIVE sortKeys(_)
\* Object.keys(value).sort()
sortKeys(keys) ==
  IF keys = <<>> THEN <<>>
  ELSE insertSorted(sortKeys(SubSeq(keys, 1, Len(keys) - 1)), keys[Len(keys)])

(***************************************************************************)
(* HASHER                                                                  *)
(***************************************************************************)
\* bit k (a power of two) of the exclusive or of a and b
xorBit(a, b, k) == (((a \div k) + (b \div k)) % 2) * k

\* bitwise exclusive or of two numbers below 2^16
xor16(a, b) ==
  (((xorBit(a, b, 1) + xorBit(a, b, 2)) + (xorBit(a, b, 4) + xorBit(a, b, 8)))
   + ((xorBit(a, b, 16) + xorBit(a, b, 32))
      + (xorBit(a, b, 64) + xorBit(a, b, 128))))
  + (((xorBit(a, b, 256) + xorBit(a, b, 512))
      + (xorBit(a, b, 1024) + xorBit(a, b, 2048)))
     + ((xorBit(a, b, 4096) + xorBit(a, b, 8192))
        + (xorBit(a, b, 16384) + xorBit(a, b, 32768))))

\* One round of the loop of fnv1aHash on a 32-bit hash kept as <<high 16
\* bits, low 16 bits>>: hash ^= c, then hash += (hash << 1) + (hash << 4) +
\* (hash << 7) + (hash << 8) + (hash << 24), i.e. hash * (403 + 2^24),
\* modulo 2^32.
fnvRound(hash, c) ==
  LET lo == xor16(hash[2], c)
      p  == lo * 403
  IN  << (hash[1] * 403 + (p \div 65536) + (lo % 256) * 256) % 65536,
         p % 65536 >>

RECURSIVE fnvLoop(_, _)
\* the hash after the first n rounds; 2166136261 = 33052 * 65536 + 40389
fnvLoop(codes, n) ==
  IF n = 0 THEN <<33052, 40389>>
  ELSE fnvRound(fnvLoop(codes, n - 1), codes[n])

base36Digit(d) ==
  <<"0", "1", "2", "3", "4", "5", "6", "7", "8", "9", "a", "b", "c", "d",
    "e", "f", "g", "h", "i", "j", "k", "l", "m", "n", "o", "p", "q", "r",
    "s", "t", "u", "v", "w", "x", "y", "z">>[d + 1]

RECURSIVE toString36(_)
\* (hash >>> 0).toString(36) of the 32-bit number <<high, low>>
toString36(hash) ==
  LET rest == (hash[1] % 36) * 65536 + hash[2]
      q    == << hash[1] \div 36, rest \div 36 >>
      d    == base36Digit(rest % 36)
  IN  IF q = <<0, 0>> THEN d ELSE toString36(q) \o d

\* fnv1aHash on every string of the model, computed once
fnvDigests ==
  [s \in Strings |-> toString36(fnvLoop(charCodes(s), Len(charCodes(s))))]

fnv1aHash(str) == fnvDigests[str]

isRef(v) == v[1] = "ref"

\* the digest of a cell that is no array or object: lines 43-47, and for a
\* function, which has no keys, line 70
primitiveHash(v) ==
  CASE v[1] = "null" -> "null"
    [] v[1] = "undefined" -> "undefined"
    [] v[1] = "bool" -> "bool:" \o (IF v[2] THEN "true" ELSE "false")
    [] v[1] = "num"  -> "num:" \o ToString(v[2])
    [] v[1] = "str"  -> "str:" \o fnv1aHash(v[2])
    [] v[1] = "function" -> "obj:{}"

\* the message of the TypeError of WeakMap.prototype.set
weakMapKeyMessage == "Invalid value used as weak map key"

RECURSIVE hashError(_, _, _, _)
\* the message of the error computeHash(value) ends with, "" when it
\* returns, when the digests of the objects of open are being computed.
\* A bigint is refused as a key by hashCache.set (line 73).  An object of
\* open is met again before its digest is set: the calls of lines 60 and 68
\* go round without end and the engine ends them with a RangeError.  The
\* error is that of the first child, in order, that has one.
hashError(h, cache, v, open) ==
  IF v[1] = "bigint" THEN weakMapKeyMessage
  ELSE IF ~isRef(v) \/ v[2] \in DOMAIN cache THEN ""
  ELSE IF v[2] \in open THEN "Maximum call stack size exceeded"
  ELSE LET vals == h[v[2]].vals
           thrown == {i \in 1..Len(vals) :
                        hashError(h, cache, vals[i], open \cup {v[2]}) # ""}
       IN IF thrown = {} THEN ""
          ELSE hashError(h, cache,
                         vals[CHOOSE i \in thrown : \A j \in thrown : i <= j],
                         open \cup {v[2]})

RECURSIVE computeHash(_, _, _)

\* the digest computeHash(value) returns when the module-level cache is
\* cache
computeHash(h, cache, v) ==
  IF ~isRef(v) THEN primitiveHash(v)
  ELSE IF v[2] \in DOMAIN cache THEN cache[v[2]]
  ELSE
    LET node == h[v[2]]
        keys == sortKeys(node.keys)
    IN IF node.isArray
       THEN "arr:[" \o join([i \in 1..Len(node.vals) |->
                               computeHash(h, cache, node.vals[i])], ",")
                    \o "]"
       ELSE "obj:{" \o join([i \in 1..Len(keys) |->
                               keys[i] \o ":" \o
                               computeHash(h, cache,
                                 node.vals[IndexOf(node.keys, keys[i])])], ",")
                    \o "}"

RECURSIVE hashed(_, _, _, _)
\* the objects computeHash(value) calls hashCache.set for: value and the
\* objects below it, down to those the cache holds already; when the call
\* ends with an error, those whose digest was complete before
hashed(h, cache, v, open) ==
  IF ~isRef(v) \/ v[2] \in DOMAIN cache \/ v[2] \in open THEN {}
  ELSE LET vals == h[v[2]].vals
           inner == open \cup {v[2]}
           thrown == {i \in 1..Len(vals) :
                        hashError(h, cache, vals[i], inner) # ""}
           last == IF thrown = {} THEN Len(vals)
                   ELSE CHOOSE i \in thrown : \A j \in thrown : i <= j
       IN (IF thrown = {} THEN {v[2]} ELSE {})
          \cup UNION {hashed(h, cache, vals[i], inner) : i \in 1..last}

\* the module-level cache after computeHash(value)
cacheAfter(h, cache, v) ==
  [id \in DOMAIN cache \cup hashed(h, cache, v, {}) |->
     IF id \in DOMAIN cache THEN cache[id]
     ELSE computeHash(h, cache, <<"ref", id>>)]

RECURSIVE deepEqual(_, _, _)
deepEqual(h, a, b) ==
  IF a[1] = b[1] /\ a[2] = b[2] THEN TRUE
  ELSE IF a[1] = "null" \/ b[1] = "null" THEN FALSE
  ELSE IF a[1] # b[1] THEN FALSE
  ELSE IF ~isRef(a) THEN FALSE
  ELSE
    LET na == h[a[2]]
        nb == h[b[2]]
    IN IF na.isArray # nb.isArray THEN FALSE
       ELSE IF na.isArray
       THEN /\ Len(na.vals) = Len(nb.vals)
            /\ \A i \in 1..Len(na.vals) : deepEqual(h, na.vals[i], nb.vals[i])
       ELSE /\ Len(na.keys) = Len(nb.keys)
            /\ \A i \in 1..Len(na.keys) :
                 /\ SeqContains(nb.keys, na.keys[i])
                 /\ deepEqual(h, na.vals[i],
                              nb.vals[IndexOf(nb.keys, na.keys[i])])

(***************************************************************************)
(* JSON.parse: every array and object of the text becomes a fresh node     *)
(***************************************************************************)
RECURSIVE nodeCount(_)
\* the number of arrays and objects of a text value
nodeCount(text) ==
  IF text[1] = "arr"
  THEN 1 + sumOver([i \in 1..Len(text[2]) |-> nodeCount(text[2][i])])
  ELSE IF text[1] = "obj"
  THEN 1 + sumOver([i \in 1..Len(text[2]) |-> nodeCount(text[2][i][2])])
  ELSE 0

RECURSIVE parseNodes(_, _)
\* the nodes of a text value, the children's before the parent's, when
\* base objects exist already: the node of a value is the last of its nodes
parseNodes(text, base) ==
  IF text[1] # "arr" /\ text[1] # "obj" THEN <<>>
  ELSE
    LET children == IF text[1] = "arr" THEN text[2]
                    ELSE [i \in 1..Len(text[2]) |-> text[2][i][2]]
        counts == [i \in 1..Len(children) |-> nodeCount(children[i])]
        first(i) == base + sumOver(SubSeq(counts, 1, i - 1))
        cells == [i \in 1..Len(children) |->
                    IF counts[i] = 0 THEN children[i]
                    ELSE <<"ref", first(i) + counts[i]>>]
        node == [isArray |-> text[1] = "arr",
                 keys |-> IF text[1] = "arr" THEN <<>>
                          ELSE [i \in 1..Len(text[2]) |-> text[2][i][1]],
                 vals |-> cells]
    IN concat([i \in 1..Len(children) |-> parseNodes(children[i], first(i))])
       \o <<node>>

\* JSON.parse(text) returns
isJSON(text) == text[1] # "invalid"

\* the message of the SyntaxError JSON.parse(text) throws: the engine's, a
\* text that names what it met
syntaxErrorMessage(text) == "Unexpected token in JSON: " \o text[2]

\* JSON.parse(text) when the objects held make the heap h; the result is
\* [heap, cell]
JSONparse(text, h) ==
  LET nodes == parseNodes(text, Len(h))
  IN [heap |-> h \o nodes,
      cell |-> IF nodes = <<>> THEN text ELSE <<"ref", Len(h) + Len(nodes)>>]

(***************************************************************************)
(* TRAVERSER                                                               *)
(* A Map is a sequence in insertion order.  hashRegistry holds HashEntry   *)
(* records with their key (hash); refName "" stands for null.              *)
(* stringRegistry holds StringEntry records; index -1 stands for null.     *)
(***************************************************************************)
\* position of the entry with this key, 0 when the Map has no such key
regIndex(reg, hash) ==
  IF \E i \in 1..Len(reg) : reg[i].hash = hash
  THEN CHOOSE i \in 1..Len(reg) : reg[i].hash = hash
  ELSE 0

regHas(reg, hash) == regIndex(reg, hash) # 0
regGet(reg, hash) == reg[regIndex(reg, hash)]

strIndex(strs, s) ==
  IF \E i \in 1..Len(strs) : strs[i].value = s
  THEN CHOOSE i \in 1..Len(strs) : strs[i].value = s
  ELSE 0

newEntry(hash, value) ==
  [hash |-> hash, value |-> value, count |-> 0, locations |-> <<>>,
   dependencies |-> <<>>, refName |-> ""]

\* probe without the loop of lines 159-162: the first collision key
probeFirst(h, reg, hash, value, collisionIndex) == collisionIndex

\* the number n of the collision key hash_c<n> that the probing loop of
\* visit stops at (lines 157-162)
RECURSIVE probe(_, _, _, _, _)
probe(h, reg, hash, value, collisionIndex) ==
  LET newHash == hash \o "_c" \o ToString(collisionIndex)
  IN IF regHas(reg, newHash) /\ ~deepEqual(h, regGet(reg, newHash).value, value)
     THEN probe(h, reg, hash, value, collisionIndex + 1)
     ELSE collisionIndex

\* count++ and locations.push([...path]) on the entry with this key
recordOccurrence(reg, hash, path) ==
  LET i == regIndex(reg, hash)
  IN [reg EXCEPT ![i].count = @ + 1, ![i].locations = Append(@, path)]

\* registerValue without the deepEqual comparison of line 156
registerValueByHash(h, reg, hash, value, path) ==
  LET reg1 == IF regHas(reg, hash) THEN reg
              ELSE Append(reg, newEntry(hash, value))
  IN [reg |-> recordOccurrence(reg1, hash, path), key |-> hash]

\* lines 142-182 of visit: find or create the entry of a composite value
\* and count the occurrence; the result is [reg, key]
registerValue(h, reg, hash, value, path) ==
  LET reg1 == IF regHas(reg, hash) THEN reg
              ELSE Append(reg, newEntry(hash, value))
      entry == regGet(reg1, hash)
  IN IF ~deepEqual(h, entry.value, value)
     THEN LET newHash == hash \o "_c" \o ToString(probe(h, reg1, hash, value, 1))
              reg2 == IF regHas(reg1, newHash) THEN reg1
                      ELSE Append(reg1, newEntry(newHash, value))
          IN [reg |-> recordOccurrence(reg2, newHash, path), key |-> newHash]
     ELSE [reg |-> recordOccurrence(reg1, hash, path), key |-> hash]

\* lines 125-131 of visit
countString(strs, s) ==
  LET strs1 == IF strIndex(strs, s) = 0
               THEN Append(strs, [value |-> s, count |-> 0, index |-> -1])
               ELSE strs
  IN [strs1 EXCEPT ![strIndex(strs1, s)].count = @ + 1]

\* wasVisited without the map of line 119: no value is known
wasVisitedNever(st, value) == FALSE

\* line 137: visited.has(value)
wasVisited(st, value) == value[2] \in st.visited

RECURSIVE visit(_, _, _, _)
RECURSIVE visitChildren(_, _, _, _, _)

\* st = [reg, visited, v2h, strs, cache]: the three registries of traverse,
\* its visited map and the module-level hash cache
visit(h, st, value, path) ==
  IF value[1] = "str" THEN [st EXCEPT !.strs = countString(@, value[2])]
  ELSE IF ~isRef(value) THEN st
  ELSE IF wasVisited(st, value) THEN st
  ELSE
    LET r == registerValue(h, st.reg, computeHash(h, st.cache, value),
                           value, path)
        st1 == [reg |-> r.reg,
                visited |-> st.visited \cup {value[2]},
                v2h |-> (value[2] :> r.key) @@ st.v2h,
                strs |-> st.strs,
                cache |-> cacheAfter(h, st.cache, value)]
    IN visitChildren(h, st1, h[value[2]], path, 1)

visitChildren(h, st, node, path, i) ==
  IF i > Len(node.vals) THEN st
  ELSE LET step == IF node.isArray THEN <<"index", i - 1>>
                   ELSE <<"key", node.keys[i]>>
       IN visitChildren(h, visit(h, st, node.vals[i], Append(path, step)),
                        node, path, i + 1)

traverse(h, root, cache) ==
  visit(h, [reg |-> <<>>, visited |-> {}, v2h |-> <<>>, strs |-> <<>>,
            cache |-> cache], root, <<>>)

(***************************************************************************)
(* DEPENDENCY ANALYSIS                                                     *)
(***************************************************************************)
\* the minimum number of occurrences of an extracted value or string: the
\* literal 3 of analyzeDependencies, topologicalSort, serializeValue and
\* generateCode
threshold == 3

\* Set.add on a Set kept as a sequence in insertion order
setAdd(set, x) == IF SeqContains(set, x) THEN set ELSE Append(set, x)

RECURSIVE findContained(_, _, _, _)
RECURSIVE findContainedFrom(_, _, _, _, _)

\* findContained(value) of analyzeDependencies; contained is the Set
\* containedHashes
findContained(h, v2h, value, contained) ==
  IF ~isRef(value) THEN contained
  ELSE findContainedFrom(h, v2h, h[value[2]].vals, 1, contained)

findContainedFrom(h, v2h, vals, i, contained) ==
  IF i > Len(vals) THEN contained
  ELSE LET child == vals[i]
           c1 == IF isRef(child)
                 THEN findContained(h, v2h, child,
                        IF child[2] \in DOMAIN v2h
                        THEN setAdd(contained, v2h[child[2]])
                        ELSE contained)
                 ELSE contained
       IN findContainedFrom(h, v2h, vals, i + 1, c1)

RECURSIVE keepDependencies(_, _, _)
\* lines 243-249: the contained keys that become dependencies of the entry
keepDependencies(reg, hash, contained) ==
  IF contained = <<>> THEN <<>>
  ELSE LET c == Head(contained)
           rest == keepDependencies(reg, hash, Tail(contained))
       IN IF c # hash /\ regHas(reg, c) /\ regGet(reg, c).count >= threshold
          THEN <<c>> \o rest
          ELSE rest

analyzeDependencies(h, reg, v2h) ==
  [i \in 1..Len(reg) |->
     IF reg[i].count < threshold THEN reg[i]
     ELSE [reg[i] EXCEPT !.dependencies =
             keepDependencies(reg, reg[i].hash,
                              findContained(h, v2h, reg[i].value, <<>>))]]

(***************************************************************************)
(* DEPENDENCY RESOLVER                                                     *)
(***************************************************************************)
\* filterDuplicates with entry.count > 3 for the condition of line 259
filterDuplicatesAbove(reg) ==
  LET kept == SelectSeq(reg, LAMBDA e : e.count > threshold)
  IN [i \in 1..Len(kept) |-> kept[i].hash]

\* filterDuplicates with entry.count >= 2 for the condition of line 259
filterDuplicatesFromTwo(reg) ==
  LET kept == SelectSeq(reg, LAMBDA e : e.count >= 2)
  IN [i \in 1..Len(kept) |-> kept[i].hash]

RECURSIVE filterDuplicates(_)
\* the keys of the entries with count >= 3, in the Map's order
filterDuplicates(reg) ==
  IF reg = <<>> THEN <<>>
  ELSE IF Head(reg).count >= threshold
       THEN <<Head(reg).hash>> \o filterDuplicates(Tail(reg))
       ELSE filterDuplicates(Tail(reg))

RECURSIVE addEdges(_, _, _)
\* lines 270-275 for one duplicate: g = [graph, inDegree]
addEdges(g, hash, deps) ==
  IF deps = <<>> THEN g
  ELSE LET depHash == Head(deps)
           g1 == IF depHash \in DOMAIN g.inDegree
                 THEN [graph |-> [g.graph EXCEPT ![depHash] = Append(@, hash)],
                       inDegree |-> [g.inDegree EXCEPT ![hash] = @ + 1]]
                 ELSE g
       IN addEdges(g1, hash, Tail(deps))

RECURSIVE buildGraph(_, _, _)
buildGraph(reg, g, duplicates) ==
  IF duplicates = <<>> THEN g
  ELSE buildGraph(reg,
                  addEdges(g, Head(duplicates),
                           regGet(reg, Head(duplicates)).dependencies),
                  Tail(duplicates))

RECURSIVE release(_, _)
\* lines 292-297: k = [inDegree, queue]
release(k, dependents) ==
  IF dependents = <<>> THEN k
  ELSE LET d == Head(dependents)
           deg == k.inDegree[d] - 1
       IN release([inDegree |-> [k.inDegree EXCEPT ![d] = deg],
                   queue |-> IF deg = 0 THEN Append(k.queue, d) ELSE k.queue],
                  Tail(dependents))

RECURSIVE kahn(_, _, _, _)
kahn(graph, inDegree, queue, result) ==
  IF queue = <<>> THEN result
  ELSE LET hash == Head(queue)
           k == release([inDegree |-> inDegree, queue |-> Tail(queue)],
                        graph[hash])
       IN kahn(graph, k.inDegree, k.queue, Append(result, hash))

\* topologicalSort that returns the duplicates in the order of the Map
topologicalSortUnsorted(reg) ==
  LET kept == SelectSeq(reg, LAMBDA e : e.count >= threshold)
  IN [i \in 1..Len(kept) |-> kept[i].hash]

\* the result holds the keys of the sorted entries
topologicalSort(reg) ==
  LET duplicates == filterDuplicates(reg)
      keys == {duplicates[i] : i \in 1..Len(duplicates)}
      g == buildGraph(reg, [graph |-> [k \in keys |-> <<>>],
                            inDegree |-> [k \in keys |-> 0]], duplicates)
      queue == SelectSeq(duplicates, LAMBDA k : g.inDegree[k] = 0)
      result == kahn(g.graph, g.inDegree, queue, <<>>)
  IN IF Len(result) # Len(duplicates) THEN duplicates ELSE result

(***************************************************************************)
(* REFERENCE NAMER                                                         *)
(***************************************************************************)
isEmptyArray(h, v) == h[v[2]].isArray /\ Len(h[v[2]].vals) = 0
isEmptyObject(h, v) == ~h[v[2]].isArray /\ Len(h[v[2]].keys) = 0

\* semanticName without the patterns of lines 311-314: no mnemonic name
semanticNameNone(h, v, usedNames) == ""

\* lines 319-324: the first semantic pattern that matches and is free
semanticName(h, v, usedNames) ==
  IF isEmptyArray(h, v) /\ "_emptyArray" \notin usedNames THEN "_emptyArray"
  ELSE IF isEmptyObject(h, v) /\ "_emptyObject" \notin usedNames
       THEN "_emptyObject"
  ELSE ""

RECURSIVE freshName(_, _)
\* lines 331-334: n = [refName, refCounter]
freshName(n, usedNames) ==
  IF n.refName \in usedNames
  THEN freshName([refName |-> "_ref" \o ToString(n.refCounter),
                  refCounter |-> n.refCounter + 1], usedNames)
  ELSE n

RECURSIVE assignLoop(_, _, _, _, _)
assignLoop(h, reg, sorted, usedNames, refCounter) ==
  IF sorted = <<>> THEN reg
  ELSE
    LET i == regIndex(reg, Head(sorted))
        sem == semanticName(h, reg[i].value, usedNames)
        n0 == IF sem = ""
              THEN [refName |-> "_ref" \o ToString(refCounter),
                    refCounter |-> refCounter + 1]
              ELSE [refName |-> sem, refCounter |-> refCounter]
        n == freshName(n0, usedNames)
    IN assignLoop(h, [reg EXCEPT ![i].refName = n.refName], Tail(sorted),
                  usedNames \cup {n.refName}, n.refCounter)

\* assignRefNames where refCounter stays 0 and no name is tried again
assignRefNamesOneCounter(h, reg, sorted) ==
  [i \in 1..Len(reg) |->
     IF SeqContains(sorted, reg[i].hash)
     THEN [reg[i] EXCEPT !.refName =
             IF isEmptyArray(h, reg[i].value) THEN "_emptyArray"
             ELSE IF isEmptyObject(h, reg[i].value) THEN "_emptyObject"
             ELSE "_ref" \o ToString(0)]
     ELSE reg[i]]

assignRefNames(h, reg, sorted) == assignLoop(h, reg, sorted, {}, 0)

(***************************************************************************)
(* CODE GENERATOR                                                          *)
(* serializeValue returns the code it emits together with the syntax tree  *)
(* of that code:                                                           *)
(*   <<"null",0>> <<"bool",b>> <<"num",n>>   literals                      *)
(*   <<"lit", s>>     a quoted string literal                              *)
(*   <<"sref", i>>    the index reference _s[i]                            *)
(*   <<"name", r>>    the reference name r                                 *)
(*   <<"arr", <<e1,...>> >>  <<"obj", << <<k1,e1>>, ... >> >>             *)
(***************************************************************************)
\* JSON.stringify of a string none of whose characters needs an escape
JSONstringify(s) == "\"" \o s \o "\""

isIdentStart(c) ==
  (c >= 97 /\ c <= 122) \/ (c >= 65 /\ c <= 90) \/ c = 95 \/ c = 36

isIdentPart(c) == isIdentStart(c) \/ (c >= 48 /\ c <= 57)

\* /^[a-zA-Z_$][a-zA-Z0-9_$]*$/.test(key)
isIdentifier(key) ==
  LET codes == charCodes(key)
  IN /\ codes # <<>>
     /\ isIdentStart(codes[1])
     /\ \A i \in 2..Len(codes) : isIdentPart(codes[i])

\* useStringReference with stringEntry.count > 3 for the condition of
\* line 363
useStringReferenceAbove(strs, s) ==
  LET i == strIndex(strs, s)
  IN i # 0 /\ strs[i].index # -1 /\ strs[i].count > threshold

\* lines 362-363: the string entry whose index reference replaces the string
useStringReference(strs, s) ==
  LET i == strIndex(strs, s)
  IN i # 0 /\ strs[i].index # -1 /\ strs[i].count >= threshold

\* useReference without the test of line 376
useReferenceAlways(v2h, reg, serializing, id) ==
  /\ id \in DOMAIN v2h
  /\ regHas(reg, v2h[id])
  /\ regGet(reg, v2h[id]).refName # ""
  /\ regGet(reg, v2h[id]).count >= threshold

\* lines 371-379: the entry whose reference name replaces the value
useReference(v2h, reg, serializing, id) ==
  /\ id \in DOMAIN v2h
  /\ regHas(reg, v2h[id])
  /\ regGet(reg, v2h[id]).refName # ""
  /\ regGet(reg, v2h[id]).count >= threshold
  /\ id \notin serializing

RECURSIVE offendingType(_, _, _, _, _)
\* the type named by the error of line 405 when serializeValue(value)
\* throws, "" when it returns: the type of the first value the
\* serialization reaches that is neither null, undefined, a boolean, a
\* number, a string nor an object
offendingType(h, v2h, reg, serializing, value) ==
  IF value[1] \in {"function", "bigint"} THEN value[1]
  ELSE IF ~isRef(value) THEN ""
  ELSE IF useReference(v2h, reg, serializing, value[2]) THEN ""
  ELSE LET vals == h[value[2]].vals
           thrown == {i \in 1..Len(vals) :
                        offendingType(h, v2h, reg, serializing, vals[i]) # ""}
       IN IF thrown = {} THEN ""
          ELSE offendingType(h, v2h, reg, serializing,
                 vals[CHOOSE i \in thrown : \A j \in thrown : i <= j])

RECURSIVE serializeValue(_, _, _, _, _, _)

\* serializeValue(value) when it returns
serializeValue(h, v2h, reg, strs, serializing, value) ==
  CASE value[1] = "null" -> [code |-> "null", ast |-> value]
    [] value[1] = "undefined" -> [code |-> "undefined", ast |-> value]
    [] value[1] = "bool" ->
         [code |-> IF value[2] THEN "true" ELSE "false", ast |-> value]
    [] value[1] = "num" -> [code |-> ToString(value[2]), ast |-> value]
    [] value[1] = "str" ->
         IF useStringReference(strs, value[2])
         THEN LET index == strs[strIndex(strs, value[2])].index
              IN [code |-> "_s[" \o ToString(index) \o "]",
                  ast |-> <<"sref", index>>]
         ELSE [code |-> JSONstringify(value[2]), ast |-> <<"lit", value[2]>>]
    [] value[1] = "ref" ->
         IF useReference(v2h, reg, serializing, value[2])
         THEN LET refName == regGet(reg, v2h[value[2]]).refName
              IN [code |-> refName, ast |-> <<"name", refName>>]
         ELSE
           LET node == h[value[2]]
               \* value.map(...) over the elements, keys.map(...) over the keys
               elements == [i \in 1..Len(node.vals) |->
                              serializeValue(h, v2h, reg, strs, serializing,
                                             node.vals[i])]
               serializedKey(key) ==
                 IF isIdentifier(key) THEN key ELSE JSONstringify(key)
           IN IF node.isArray
              THEN IF Len(node.vals) = 0
                   THEN [code |-> "[]", ast |-> <<"arr", <<>> >>]
                   ELSE [code |-> "[" \o join([i \in 1..Len(elements) |->
                                                 elements[i].code], ", ")
                                      \o "]",
                         ast |-> <<"arr", [i \in 1..Len(elements) |->
                                             elements[i].ast]>>]
              ELSE IF Len(node.keys) = 0
                   THEN [code |-> "{}", ast |-> <<"obj", <<>> >>]
                   ELSE [code |-> "{" \o join([i \in 1..Len(elements) |->
                                                 serializedKey(node.keys[i])
                                                 \o ": " \o elements[i].code],
                                              ", ")
                                      \o "}",
                         ast |-> <<"obj", [i \in 1..Len(elements) |->
                                             <<node.keys[i], elements[i].ast>>]>>]

RECURSIVE insertByCount(_, _)
\* stable insertion for the comparator (a, b) => b.count - a.count
insertByCount(sorted, e) ==
  IF sorted = <<>> THEN <<e>>
  ELSE IF sorted[Len(sorted)].count >= e.count THEN Append(sorted, e)
  ELSE Append(insertByCount(SubSeq(sorted, 1, Len(sorted) - 1), e),
              sorted[Len(sorted)])

\* sortByCount without the sort of line 424
sortByCountUnsorted(entries) == entries

RECURSIVE sortByCount(_)
sortByCount(entries) ==
  IF entries = <<>> THEN <<>>
  ELSE insertByCount(sortByCount(SubSeq(entries, 1, Len(entries) - 1)),
                     entries[Len(entries)])

\* deduplicatedStrings with entry.count >= 2 for the filter of line 423
deduplicatedStringsFromTwo(strs) ==
  sortByCount(SelectSeq(strs, LAMBDA e : e.count >= 2))

\* lines 422-424
deduplicatedStrings(strs) ==
  sortByCount(SelectSeq(strs, LAMBDA e : e.count >= threshold))

\* lines 427-429: entry.index = index on the entries of deduplicatedStrings,
\* which are the entries of the registry
assignIndexes(strs, ded) ==
  [i \in 1..Len(strs) |->
     IF \E j \in 1..Len(ded) : ded[j].value = strs[i].value
     THEN [strs[i] EXCEPT !.index =
             (CHOOSE j \in 1..Len(ded) : ded[j].value = strs[i].value) - 1]
     ELSE strs[i]]

line(kind, text, name, ast) ==
  [kind |-> kind, text |-> text, name |-> name, ast |-> ast]

\* lines 431-437
stringTableLines(ded) ==
  IF ded = <<>> THEN <<>>
  ELSE <<line("tableOpen", "const _s = [", "_s", <<"null", 0>>)>>
       \o [i \in 1..Len(ded) |->
             line("tableEntry",
                  "  " \o JSONstringify(ded[i].value)
                       \o (IF i - 1 < Len(ded) - 1 THEN "," ELSE ""),
                  "", <<"lit", ded[i].value>>)]
       \o <<line("tableClose", "];", "", <<"null", 0>>),
            line("blank", "", "", <<"null", 0>>)>>

RECURSIVE declarationLines(_, _, _, _, _, _)
\* lines 441-446; the result is [lines, serializing]
declarationLines(h, v2h, reg, strs, serializing, sorted) ==
  IF sorted = <<>> THEN [lines |-> <<>>, serializing |-> serializing]
  ELSE
    LET entry == regGet(reg, Head(sorted))
        id == entry.value[2]
        c == serializeValue(h, v2h, reg, strs, serializing \cup {id},
                            entry.value)
        rest == declarationLines(h, v2h, reg, strs, serializing \ {id},
                                 Tail(sorted))
    IN [lines |-> <<line("declaration",
                         "const " \o entry.refName \o " = " \o c.code \o ";",
                         entry.refName, c.ast)>> \o rest.lines,
        serializing |-> rest.serializing]

\* assembleLines with the string table pushed after the declarations
assembleLinesTableLast(table, declarations, rootCode) ==
  << line("comment", "// Auto-generated deduplicated module", "",
          <<"null", 0>>),
     line("comment",
          "// Strings and objects extracted for memory efficiency", "",
          <<"null", 0>>),
     line("blank", "", "", <<"null", 0>>) >>
  \o declarations
  \o (IF Len(declarations) > 0 THEN <<line("blank", "", "", <<"null", 0>>)>>
      ELSE <<>>)
  \o table
  \o <<line("export", "export default " \o rootCode.code \o ";", "",
            rootCode.ast)>>

RECURSIVE thrownDeclaration(_, _, _, _, _)
\* the first entry of sortedDuplicates whose serialization (line 443)
\* throws, as its position; 0 when none does.  The entries before it were
\* added to serializingValues and deleted again.
thrownDeclaration(h, v2h, reg, serializing, sorted) ==
  IF sorted = <<>> THEN 0
  ELSE LET id == regGet(reg, Head(sorted)).value[2]
       IN IF offendingType(h, v2h, reg, serializing \cup {id},
                           regGet(reg, Head(sorted)).value) # ""
          THEN 1
          ELSE LET rest == thrownDeclaration(h, v2h, reg, serializing \ {id},
                                             Tail(sorted))
               IN IF rest = 0 THEN 0 ELSE rest + 1

\* serializingValues before the k-th entry of sortedDuplicates is added
serializingBefore(reg, serializing, sorted, k) ==
  serializing \ {regGet(reg, sorted[i]).value[2] : i \in 1..(k - 1)}

\* generateCode when serializeValue throws: [type, serializing], the type
\* the error names ("" when generateCode returns) and serializingValues as
\* the throw leaves it, the value of line 442 not deleted
generateCodeThrows(h, root, v2h, reg, sorted, serializing) ==
  LET k == thrownDeclaration(h, v2h, reg, serializing, sorted)
      before == serializingBefore(reg, serializing, sorted, k)
      id == regGet(reg, sorted[k]).value[2]
      after == serializingBefore(reg, serializing, sorted, Len(sorted) + 1)
  IN IF k # 0
     THEN [type |-> offendingType(h, v2h, reg, before \cup {id},
                                  regGet(reg, sorted[k]).value),
           serializing |-> before \cup {id}]
     ELSE [type |-> offendingType(h, v2h, reg, after, root),
           serializing |-> after]

\* the order of the pushes of generateCode: lines 417-419, the string table
\* (431-437), the declarations (445), line 449 and line 453
assembleLines(table, declarations, rootCode) ==
  << line("comment", "// Auto-generated deduplicated module", "",
          <<"null", 0>>),
     line("comment",
          "// Strings and objects extracted for memory efficiency", "",
          <<"null", 0>>),
     line("blank", "", "", <<"null", 0>>) >>
  \o table
  \o declarations
  \o (IF Len(declarations) > 0 THEN <<line("blank", "", "", <<"null", 0>>)>>
      ELSE <<>>)
  \o <<line("export", "export default " \o rootCode.code \o ";", "",
            rootCode.ast)>>

\* the result is [lines, strs, serializing]: the lines pushed, the string
\* registry with its indexes, and the module-level serializingValues
generateCode(h, root, v2h, reg, sorted, strs, serializing) ==
  LET ded == deduplicatedStrings(strs)
      strs1 == IF Len(ded) > 0 THEN assignIndexes(strs, ded) ELSE strs
      decls == declarationLines(h, v2h, reg, strs1, serializing, sorted)
      rootCode == serializeValue(h, v2h, reg, strs1, decls.serializing, root)
  IN [lines |-> assembleLines(stringTableLines(ded), decls.lines, rootCode),
      strs |-> strs1,
      serializing |-> decls.serializing]

(***************************************************************************)
(* INPUTS: the JSON texts the calls are made with.  The root is a          *)
(* primitive, or an array or object of at most MaxWidth children drawn     *)
(* from one family of parts.                                               *)
(***************************************************************************)
null == <<"null", 0>>
num(n) == <<"num", n>>
str(s) == <<"str", s>>
arr(elems) == <<"arr", elems>>
obj(members) == <<"obj", members>>

emptyArray == arr(<<>>)
items == obj(<< <<"items", emptyArray>> >>)
ab == obj(<< <<"a", num(1)>>, <<"b", num(2)>> >>)
ba == obj(<< <<"b", num(2)>>, <<"a", num(1)>> >>)
abKey == obj(<< <<"a:num:1,b", num(2)>> >>)
liquid == arr(<<str("liquid")>>)
costarring == arr(<<str("costarring")>>)

\* nested duplicates, the empty array and the empty object
NestingParts == <<emptyArray, obj(<<>>), items, arr(<<items, obj(<<>>)>>)>>

\* values below and at the threshold, with a number and a boolean
CountingParts ==
  <<obj(<< <<"n", num(1)>> >>), obj(<< <<"n", num(2)>> >>),
    arr(<<obj(<< <<"n", num(1)>> >>), <<"bool", TRUE>>, null>>), num(1)>>

\* strings, alone and inside composite values
StringParts ==
  <<str("common"), str("rare"),
    arr(<<str("common"), str("common"), str("rare")>>),
    obj(<< <<"x", str("rare")>> >>)>>

\* arrays of two strings with the same FNV-1a digest
StringCollisionParts ==
  <<costarring, liquid, arr(<<liquid, liquid, liquid>>), str("liquid")>>

\* objects whose digests agree: the same members in another order, and
\* a key that spells the digest of two members
KeyCollisionParts ==
  <<ab, ba, abKey, arr(<<abKey, abKey, abKey>>)>>

Families ==
  {NestingParts, CountingParts, StringParts, StringCollisionParts,
   KeyCollisionParts}

rootKeys == <<"a", "b", "c", "n", "x", "items", "rare">>

PrimitiveInputs == {null, <<"bool", FALSE>>, num(2), str("common")}

\* the input of the threshold scenario: {"x":{"n":1},"y":{"n":1},"z":{"n":2}}
thresholdScenario ==
  obj(<< <<"x", obj(<< <<"n", num(1)>> >>)>>,
         <<"y", obj(<< <<"n", num(1)>> >>)>>,
         <<"z", obj(<< <<"n", num(2)>> >>)>> >>)

\* objects with the key __proto__: {"__proto__":1} and {"__proto__":[]}
protoScenarios ==
  {obj(<< <<"__proto__", num(1)>> >>), obj(<< <<"__proto__", emptyArray>> >>)}

\* texts that are not JSON
notJSON == {<<"invalid", "{not json">>, <<"invalid", "">>}

ScenarioInputs ==
  PrimitiveInputs \cup {thresholdScenario} \cup protoScenarios \cup notJSON

\* the array and the object whose children are the parts picked
Roots(family, pick) ==
  { arr([i \in DOMAIN pick |-> family[pick[i]]]),
    obj([i \in DOMAIN pick |-> <<rootKeys[i], family[pick[i]]>>]) }

(***************************************************************************)
(* deduplicateJSON: one call, stage by stage                               *)
(***************************************************************************)
Init ==
  /\ pc = "idle"
  /\ jsonString = null
  /\ heap = <<>>
  /\ rootValue = null
  /\ hashCache = <<>>
  /\ hashRegistry = <<>>
  /\ valueToHash = <<>>
  /\ stringRegistry = <<>>
  /\ sortedDuplicates = <<>>
  /\ serializingValues = {}
  /\ lines = <<>>
  /\ error = ""
  /\ objects = <<>>
  /\ earlier = <<>>
  /\ stats = <<>>
  /\ content = <<>>
  /\ optimised = <<>>
  /\ cacheFiles = <<>>
  /\ call = <<>>
  /\ cached = {}
  /\ props = <<>>
  /\ jsonSchema = <<>>
  /\ console = <<>>

\* typeof jsonString === 'string' (line 467): the argument is a text, or a
\* value in memory that is a string
isText(input) == input[1] # "value" \/ input[2][1] = "str"

\* a string of the model read as a text: "[]" is the text of the empty
\* array, the other strings are not JSON
stringText(s) == IF s = "[]" THEN emptyArray ELSE <<"invalid", s>>

\* the text that JSON.parse (line 469) is given
textOf(input) == IF input[1] = "value" THEN stringText(input[2][2]) ELSE input

\* deduplicateJSON without the try and catch of lines 468-472: what is not
\* JSON goes on as the value of the call
deduplicateJSONUncaught(input) ==
  /\ pc = "idle"
  /\ jsonString' = input
  /\ heap' = JSONparse(textOf(input), objects).heap
  /\ rootValue' = JSONparse(textOf(input), objects).cell
  /\ pc' = "parsed"
  /\ UNCHANGED <<hashCache, hashRegistry, valueToHash, stringRegistry,
                 sortedDuplicates, serializingValues, lines, error, objects>>
  /\ UNCHANGED callerVars
  /\ UNCHANGED stats

\* lines 466-475: the call with a JSON text, parsed into fresh objects, or
\* failing with the message of the parse error; or the call with a value
\* in memory
deduplicateJSON(input) ==
  /\ pc = "idle"
  /\ jsonString' = input
  /\ IF ~isText(input)
     THEN /\ heap' = objects
          /\ rootValue' = input[2]
          /\ pc' = "parsed"
          /\ UNCHANGED error
     ELSE IF isJSON(textOf(input))
     THEN /\ heap' = JSONparse(textOf(input), objects).heap
          /\ rootValue' = JSONparse(textOf(input), objects).cell
          /\ pc' = "parsed"
          /\ UNCHANGED error
     ELSE /\ error' = "Invalid JSON: " \o syntaxErrorMessage(textOf(input))
          /\ pc' = "failed"
          /\ UNCHANGED <<heap, rootValue>>
  /\ UNCHANGED <<hashCache, hashRegistry, valueToHash, stringRegistry,
                 sortedDuplicates, serializingValues, lines, objects>>
  /\ UNCHANGED callerVars
  /\ UNCHANGED stats

Parse ==
  \/ \E text \in ScenarioInputs : deduplicateJSON(text)
  \/ \E family \in Families, n \in 0..MaxWidth :
       \E pick \in [1..n -> 1..Len(family)] :
         \E text \in Roots(family, pick) : deduplicateJSON(text)

\* line 478; computeHash throws in the first call of visit, that for the
\* root, or nowhere
Traverse ==
  /\ pc = "parsed"
  /\ IF isRef(rootValue) /\ hashError(heap, hashCache, rootValue, {}) # ""
     THEN /\ hashCache' = cacheAfter(heap, hashCache, rootValue)
          /\ error' = hashError(heap, hashCache, rootValue, {})
          /\ pc' = "failed"
          /\ UNCHANGED <<hashRegistry, valueToHash, stringRegistry>>
     ELSE LET st == traverse(heap, rootValue, hashCache)
          IN /\ hashRegistry' = st.reg
             /\ valueToHash' = st.v2h
             /\ stringRegistry' = st.strs
             /\ hashCache' = st.cache
             /\ pc' = "traversed"
             /\ UNCHANGED error
  /\ UNCHANGED <<jsonString, heap, rootValue, sortedDuplicates,
                 serializingValues, lines, objects>>
  /\ UNCHANGED callerVars
  /\ UNCHANGED stats

\* line 481
AnalyzeDependencies ==
  /\ pc = "traversed"
  /\ hashRegistry' = analyzeDependencies(heap, hashRegistry, valueToHash)
  /\ pc' = "analyzed"
  /\ UNCHANGED <<jsonString, heap, rootValue, hashCache, valueToHash,
                 stringRegistry, sortedDuplicates, serializingValues, lines,
                 error, objects>>
  /\ UNCHANGED callerVars
  /\ UNCHANGED stats

\* line 484
TopologicalSort ==
  /\ pc = "analyzed"
  /\ sortedDuplicates' = topologicalSort(hashRegistry)
  /\ pc' = "sorted"
  /\ UNCHANGED <<jsonString, heap, rootValue, hashCache, hashRegistry,
                 valueToHash, stringRegistry, serializingValues, lines,
                 error, objects>>
  /\ UNCHANGED callerVars
  /\ UNCHANGED stats

\* line 487
AssignRefNames ==
  /\ pc = "sorted"
  /\ hashRegistry' = assignRefNames(heap, hashRegistry, sortedDuplicates)
  /\ pc' = "named"
  /\ UNCHANGED <<jsonString, heap, rootValue, hashCache, valueToHash,
                 stringRegistry, sortedDuplicates, serializingValues, lines,
                 error, objects>>
  /\ UNCHANGED callerVars
  /\ UNCHANGED stats

\* line 490; the error of line 405 leaves generateCode and the call
GenerateCode ==
  /\ pc = "named"
  /\ LET thrown == generateCodeThrows(heap, rootValue, valueToHash,
                                      hashRegistry, sortedDuplicates,
                                      serializingValues)
         g == generateCode(heap, rootValue, valueToHash, hashRegistry,
                           sortedDuplicates, stringRegistry,
                           serializingValues)
         ded == deduplicatedStrings(stringRegistry)
     IN IF thrown.type # ""
        THEN /\ error' = "Cannot serialize type: " \o thrown.type
             /\ serializingValues' = thrown.serializing
             /\ stringRegistry' = IF Len(ded) > 0
                                  THEN assignIndexes(stringRegistry, ded)
                                  ELSE stringRegistry
             /\ pc' = "failed"
             /\ UNCHANGED lines
        ELSE /\ lines' = g.lines
             /\ stringRegistry' = g.strs
             /\ serializingValues' = g.serializing
             /\ pc' = "done"
             /\ UNCHANGED error
  /\ UNCHANGED <<jsonString, heap, rootValue, hashCache, hashRegistry,
                 valueToHash, sortedDuplicates, objects>>
  /\ UNCHANGED callerVars
  /\ UNCHANGED stats

(***************************************************************************)
(* STATISTICS                                                              *)
(***************************************************************************)
\* statsDuplicates with entry.count >= 2 for the filters of lines 525, 528
statsDuplicatesFromTwo(registry) ==
  SelectSeq(registry, LAMBDA entry : entry.count >= 2)

\* lines 525 and 528: Array.from(registry.values()).filter(...)
statsDuplicates(registry) ==
  SelectSeq(registry, LAMBDA entry : entry.count >= threshold)

\* lines 526 and 529: the sum of the counts
totalCount(entries) == sumOver([i \in 1..Len(entries) |-> entries[i].count])

\* lines 525-539 of getDeduplicationStats: the figures for the registries
\* of the traversal
figures(hashRegistry_, stringRegistry_) ==
  LET duplicates == statsDuplicates(hashRegistry_)
      totalOccurrences == totalCount(duplicates)
      stringDuplicates == statsDuplicates(stringRegistry_)
      totalStringOccurrences == totalCount(stringDuplicates)
  IN [uniqueValues |-> Len(hashRegistry_),
      deduplicatedValues |-> Len(duplicates),
      totalOccurrences |-> totalOccurrences,
      uniqueStrings |-> Len(stringRegistry_),
      deduplicatedStrings |-> Len(stringDuplicates),
      totalStringOccurrences |-> totalStringOccurrences,
      estimatedSavings |->
        ToString(Len(duplicates)) \o " object/array variables + "
          \o ToString(Len(stringDuplicates)) \o " strings, "
          \o ToString(totalOccurrences + totalStringOccurrences)
          \o " total references"]

\* lines 516-523 of getDeduplicationStats(input) when the objects alive are
\* those of h: a text is parsed into fresh objects (line 518), a value is
\* taken as it is (line 520), and the value is traversed
statsTraversal(input, h, cache) ==
  IF isText(input)
  THEN the({traverse(parsed.heap, parsed.cell, cache) :
            parsed \in {JSONparse(textOf(input), h)}})
  ELSE traverse(h, input[2], cache)

\* lines.join('\n')
moduleText == join([i \in 1..Len(lines) |-> lines[i].text], "\n")

\* what the module keeps of a WeakMap or WeakSet once the call has ended:
\* the entries of the objects the caller holds
heldKeys(keys) == keys \cap (1..Len(objects))

\* line 504: the text is returned; the objects the call parsed, its
\* registries and the cache entries of those objects (weakly held) are
\* gone, and the caller lets go of the figures it asked for
Return ==
  /\ pc \in {"done", "measured"}
  /\ pc' = "idle"
  /\ jsonString' = null
  /\ heap' = objects
  /\ rootValue' = null
  /\ hashCache' = [id \in heldKeys(DOMAIN hashCache) |-> hashCache[id]]
  /\ hashRegistry' = <<>>
  /\ valueToHash' = <<>>
  /\ stringRegistry' = <<>>
  /\ sortedDuplicates' = <<>>
  /\ serializingValues' = heldKeys(serializingValues)
  /\ lines' = <<>>
  /\ UNCHANGED <<error, objects>>
  /\ UNCHANGED callerVars
  /\ stats' = <<>>

\* the error of line 471, of line 73 or of line 405 leaves the call
Throw ==
  /\ pc = "failed"
  /\ pc' = "idle"
  /\ jsonString' = null
  /\ heap' = objects
  /\ rootValue' = null
  /\ hashCache' = [id \in heldKeys(DOMAIN hashCache) |-> hashCache[id]]
  /\ hashRegistry' = <<>>
  /\ valueToHash' = <<>>
  /\ stringRegistry' = <<>>
  /\ sortedDuplicates' = <<>>
  /\ serializingValues' = heldKeys(serializingValues)
  /\ error' = ""
  /\ UNCHANGED <<lines, objects>>
  /\ UNCHANGED callerVars
  /\ UNCHANGED stats

\* the caller asks for the figures of the text whose module it was just
\* given, and holds both; the objects parsed for the figures are gone when
\* they are returned
GetDeduplicationStats ==
  /\ pc = "done"
  /\ stats = <<>>
  /\ \E st \in {statsTraversal(jsonString, heap, hashCache)} :
       /\ stats' = figures(st.reg, st.strs)
       /\ hashCache' = [id \in DOMAIN st.cache \cap (1..Len(heap)) |->
                          st.cache[id]]
  /\ pc' = "measured"
  /\ UNCHANGED <<jsonString, heap, rootValue, hashRegistry, valueToHash,
                 stringRegistry, sortedDuplicates, serializingValues, lines,
                 error, objects>>
  /\ UNCHANGED callerVars

Next ==
  \/ Parse
  \/ Traverse
  \/ AnalyzeDependencies
  \/ TopologicalSort
  \/ AssignRefNames
  \/ GenerateCode
  \/ GetDeduplicationStats
  \/ Return
  \/ Throw

Spec == Init /\ [][Next]_vars

(***************************************************************************)
(* Calls with values in memory: the caller holds objects between the       *)
(* calls and passes them, or a text, any number of times in any order.     *)
(***************************************************************************)
undefined == <<"undefined", 0>>
function(name) == <<"function", name>>
bigint(n) == <<"bigint", n>>

\* the values the caller builds, each of fresh objects:
\* [undefined], [f], [{"a":1}, 1n], [[f],[f],[f]], [{"n":1},{"n":1},{"n":1}]
heldValues ==
  << arr(<<undefined>>),
     arr(<<function("f")>>),
     arr(<<obj(<< <<"a", num(1)>> >>), bigint(1)>>),
     arr(<<arr(<<function("f")>>), arr(<<function("f")>>),
           arr(<<function("f")>>)>>),
     arr(<<obj(<< <<"n", num(1)>> >>), obj(<< <<"n", num(1)>> >>),
           obj(<< <<"n", num(1)>> >>)>>) >>

RECURSIVE allocate(_, _)
\* the heap after the values were built, one after the other, on the heap h
allocate(values, h) ==
  IF values = <<>> THEN h
  ELSE allocate(Tail(values), h \o parseNodes(Head(values), Len(h)))

\* the objects the caller holds: those of heldValues, and five more made
\* of them: an array of the three objects of the last value in the opposite
\* order, an array that holds itself, an object and an array that hold one
\* another, and an array that holds the first object of the last value
\* three times
heldObjects ==
  LET h == allocate(heldValues, <<>>)
      last == h[Len(h)].vals
      array(vals) == [isArray |-> TRUE, keys |-> <<>>, vals |-> vals]
  IN h \o << array([i \in 1..Len(last) |-> last[Len(last) + 1 - i]]),
              array(<< <<"ref", Len(h) + 2>> >>),
              [isArray |-> FALSE, keys |-> <<"a">>,
               vals |-> << <<"ref", Len(h) + 4>> >>],
              array(<< <<"ref", Len(h) + 3>> >>),
              array(<<last[1], last[1], last[1]>>) >>

\* the objects that are the root of one of the values held
heldRoots ==
  {Len(allocate(SubSeq(heldValues, 1, n), <<>>)) : n \in 1..Len(heldValues)}
    \cup {Len(heldObjects) - 4, Len(heldObjects) - 3, Len(heldObjects) - 2,
          Len(heldObjects)}

\* the arguments of the calls: an object held, a value that is no object,
\* or a text
MemoryInputs ==
  {<<"value", <<"ref", id>> >> : id \in heldRoots}
    \cup {<<"value", undefined>>, <<"value", function("f")>>,
          <<"value", bigint(1)>>}
    \cup {thresholdScenario, <<"invalid", "{not json">>}

MemoryInit ==
  /\ pc = "idle"
  /\ jsonString = null
  /\ heap = heldObjects
  /\ rootValue = null
  /\ hashCache = <<>>
  /\ hashRegistry = <<>>
  /\ valueToHash = <<>>
  /\ stringRegistry = <<>>
  /\ sortedDuplicates = <<>>
  /\ serializingValues = {}
  /\ lines = <<>>
  /\ error = ""
  /\ objects = heldObjects
  /\ earlier = <<>>
  /\ stats = <<>>
  /\ content = <<>>
  /\ optimised = <<>>
  /\ cacheFiles = <<>>
  /\ call = <<>>
  /\ cached = {}
  /\ props = <<>>
  /\ jsonSchema = <<>>
  /\ console = <<>>

Call == \E input \in MemoryInputs : deduplicateJSON(input)

\* the caller keeps the outcome of one call, text or error, with the
\* argument of the call and what its objects held, to compare it with the
\* outcome of later calls
Keep ==
  /\ pc \in {"done", "failed"}
  /\ earlier = <<>>
  /\ earlier' = <<jsonString, moduleText, error, objects>>
  /\ UNCHANGED <<pc, jsonString, heap, rootValue, hashCache, hashRegistry,
                 valueToHash, stringRegistry, sortedDuplicates,
                 serializingValues, lines, error, objects, content, optimised,
                 cacheFiles, call, cached>>
  /\ UNCHANGED schemaVars
  /\ UNCHANGED stats

\* between two calls the caller assigns to the key n of one of the objects
\* of the last value held: 1, or a function
Mutate ==
  /\ pc = "idle"
  /\ \E id \in {heldObjects[Len(heldObjects)].vals[1][2] + k : k \in 0..2},
        v \in {num(1), function("f")} :
       /\ objects[id].vals # <<v>>
       /\ objects' = [objects EXCEPT ![id].vals = <<v>>]
       /\ heap' = [heap EXCEPT ![id].vals = <<v>>]
  /\ UNCHANGED <<pc, jsonString, rootValue, hashCache, hashRegistry,
                 valueToHash, stringRegistry, sortedDuplicates,
                 serializingValues, lines, error>>
  /\ UNCHANGED callerVars
  /\ UNCHANGED stats

MemoryNext ==
  \/ Call
  \/ Keep
  \/ Traverse
  \/ AnalyzeDependencies
  \/ TopologicalSort
  \/ AssignRefNames
  \/ GenerateCode
  \/ Return
  \/ Throw

MemorySpec == MemoryInit /\ [][MemoryNext]_vars

\* the calls of a caller that assigns to its objects between them: it
\* passes the last value held, or the array that holds the objects of that
\* value in the opposite order
MutationSpec ==
  MemoryInit
    /\ [][\/ \E id \in {Len(heldObjects) - 5, Len(heldObjects) - 4} :
               deduplicateJSON(<<"value", <<"ref", id>> >>)
          \/ Mutate
          \/ Keep
          \/ Traverse
          \/ AnalyzeDependencies
          \/ TopologicalSort
          \/ AssignRefNames
          \/ GenerateCode
          \/ Return
          \/ Throw]_vars

(***************************************************************************)
(* optimiseJSON.  A content is a sequence of pieces: a piece is a literal  *)
(* run of characters <<"lit", s>> or the text of a JSON value; startsWith, *)
(* endsWith and substring look at whole pieces.                            *)
(***************************************************************************)
lit(s) == <<"lit", s>>

\* 'export default ' and ';'
exportDefault == lit("export default ")
semicolon == lit(";")

\* lines 477-504 in one step, for the root value parsed.cell on the heap
\* parsed.heap: the text returned, or the message of the error thrown
pipeline(parsed, cache, serializing) ==
  the({
    the({
      the({
        the({
          the({
            IF thrown.type # ""
            THEN [text |-> "",
                  error |-> "Cannot serialize type: " \o thrown.type]
            ELSE the({[text |-> join([i \in 1..Len(g.lines) |->
                                       g.lines[i].text], "\n"),
                       error |-> ""] :
                      g \in {generateCode(parsed.heap, parsed.cell, st.v2h,
                                          withNames, sorted, st.strs,
                                          serializing)}}) :
            thrown \in {generateCodeThrows(parsed.heap, parsed.cell, st.v2h,
                                           withNames, sorted, serializing)}}) :
          withNames \in {assignRefNames(parsed.heap, analyzed, sorted)}}) :
        sorted \in {topologicalSort(analyzed)}}) :
      analyzed \in {analyzeDependencies(parsed.heap, st.reg, st.v2h)}}) :
    st \in {traverse(parsed.heap, parsed.cell, cache)}})

\* lines 466-504 in one step: what deduplicateJSON(input) returns, or the
\* message of what it throws, when the objects alive are those of h
deduplicateJSONResult(input, h, cache, serializing) ==
  IF isText(input) /\ ~isJSON(textOf(input))
  THEN [text |-> "",
        error |-> "Invalid JSON: " \o syntaxErrorMessage(textOf(input))]
  ELSE the({IF isRef(parsed.cell)
               /\ hashError(parsed.heap, cache, parsed.cell, {}) # ""
            THEN [text |-> "",
                  error |-> hashError(parsed.heap, cache, parsed.cell, {})]
            ELSE pipeline(parsed, cache, serializing) :
            parsed \in {IF isText(input) THEN JSONparse(textOf(input), h)
                        ELSE [heap |-> h, cell |-> input[2]]}})

\* content.startsWith('export default ')
startsWithExportDefault(text) == Len(text) >= 1 /\ text[1] = exportDefault

\* lines 33-36: the content after the prefix, less one ';' at its end
strip(text) ==
  LET rest == Tail(text)
  IN IF Len(rest) >= 1 /\ rest[Len(rest)] = semicolon
     THEN SubSeq(rest, 1, Len(rest) - 1)
     ELSE rest

\* JSON.parse(jsonString) returns: the text is the text of one JSON value
parses(text) == Len(text) = 1 /\ text[1][1] # "lit" /\ isJSON(text[1])

\* optimiseJSON where the catch of line 42 returns jsonString, the rest, for content
optimiseJSONReturningRest(text) ==
  IF ~startsWithExportDefault(text) THEN text
  ELSE IF ~parses(strip(text)) THEN strip(text)
  ELSE the({the({IF r.error # "" THEN strip(text) ELSE <<lit(r.text)>> :
                 r \in {deduplicateJSONResult(<<"value", data.cell>>,
                                              data.heap, hashCache,
                                              serializingValues)}}) :
            data \in {JSONparse(strip(text)[1], heap)}})

\* part_002 lines 27-46: the content returned; data is the value parsed
\* from the content, in memory, and every error is caught
optimiseJSON(text) ==
  IF ~startsWithExportDefault(text) THEN text
  ELSE IF ~parses(strip(text)) THEN text
  ELSE the({the({IF r.error # "" THEN text ELSE <<lit(r.text)>> :
                 r \in {deduplicateJSONResult(<<"value", data.cell>>,
                                              data.heap, hashCache,
                                              serializingValues)}}) :
            data \in {JSONparse(strip(text)[1], heap)}})

\* the JSON values and other texts that follow the prefix
OptimiseBodies ==
  PrimitiveInputs \cup {str("[]"), obj(<<>>), thresholdScenario} \cup notJSON
    \cup UNION {Roots(family, [i \in 1..3 |-> k]) :
                  family \in Families, k \in 1..4}

\* the content of the test 'should handle already optimized content'
alreadyOptimized == lit("const _test = [];\n\nexport default { test: _test }")

\* the contents: a body after the prefix, with no, one or two semicolons;
\* a body alone; a body after the prefix twice; a module made before
Contents ==
  {<<exportDefault, body>> : body \in OptimiseBodies}
    \cup {<<exportDefault, body, semicolon>> : body \in OptimiseBodies}
    \cup {<<exportDefault, body, semicolon, semicolon>> :
            body \in OptimiseBodies}
    \cup {<<body>> : body \in OptimiseBodies}
    \cup {<<exportDefault, exportDefault, body, semicolon>> :
            body \in OptimiseBodies}
    \cup {<<alreadyOptimized>>, <<exportDefault>>}

\* the first call, on a content
Optimise ==
  /\ content = <<>>
  /\ optimised = <<>>
  /\ \E text \in Contents :
       /\ content' = text
       /\ optimised' = optimiseJSON(text)
  /\ UNCHANGED <<pc, jsonString, heap, rootValue, hashCache, hashRegistry,
                 valueToHash, stringRegistry, sortedDuplicates,
                 serializingValues, lines, error, objects, earlier, stats,
                 cacheFiles, call, cached>>
  /\ UNCHANGED schemaVars

\* a later call, on the content that the call before returned
OptimiseAgain ==
  /\ content # <<>>
  /\ content' = optimised
  /\ optimised' = optimiseJSON(optimised)
  /\ UNCHANGED <<pc, jsonString, heap, rootValue, hashCache, hashRegistry,
                 valueToHash, stringRegistry, sortedDuplicates,
                 serializingValues, lines, error, objects, earlier, stats,
                 cacheFiles, call, cached>>
  /\ UNCHANGED schemaVars

OptimiseNext ==
  \/ Optimise
  \/ OptimiseAgain

OptimiseSpec == Init /\ [][OptimiseNext]_vars

(***************************************************************************)
(* getComponentMeta and its cache.  A code is the sequence of its pieces;  *)
(* a component is its path, the sequence of its segments, and a file name  *)
(* is the sequence of its parts between the dots.  The checker of          *)
(* vue-component-meta is outside the repository: of its result the model   *)
(* keeps the names of the props the code declares.                         *)
(***************************************************************************)
normalScript == <<"NormalScript", "vue">>
slotted == <<"Slotted", "vue">>

\* the files of the components under rootDir: two with the same code and
\* the same file name in two directories, and one that closes an MDCSlot
files ==
  [component \in {<<"app", "components", normalScript>>,
                  <<"lib", normalScript>>,
                  <<"app", "components", slotted>>} |->
     IF component[Len(component)] = slotted THEN <<"alt:", "</MDCSlot>">>
     ELSE <<"alt:", "src:">>]

\* the components the calls name: those of files, and one that has no file
Components == DOMAIN files \cup {<<"app", "components", <<"Missing", "vue">> >>}

\* part_001 lines 12-64, on the codes of the model: every '</MDCSlot>'
\* becomes '</slot>' (line 19); no other pattern occurs in them
defaultTransformer(code) ==
  [i \in 1..Len(code) |-> IF code[i] = "</MDCSlot>" THEN "</slot>" ELSE code[i]]

\* the transformer of the test: code.replace('alt:', 'title:'), which
\* replaces the first 'alt:'
renameProp(code) ==
  [i \in 1..Len(code) |->
     IF code[i] = "alt:" /\ \A j \in 1..(i - 1) : code[j] # "alt:"
     THEN "title:" ELSE code[i]]

\* a transformer by its name: "empty" returns the code ''
runTransformer(transformer, code) ==
  CASE transformer = "default" -> defaultTransformer(code)
    [] transformer = "renameProp" -> renameProp(code)
    [] transformer = "empty" -> <<>>

RECURSIVE transform(_, _)
\* lines 173-179: code = res?.code || code for every transformer in turn
transform(transformers, code) ==
  IF transformers = <<>> THEN code
  ELSE LET res == runTransformer(Head(transformers), code)
       IN transform(Tail(transformers), IF res # <<>> THEN res ELSE code)

\* the transformers the callers pass in options.transformers
TransformerLists == {<<>>, <<"renameProp">>, <<"renameProp", "empty">>}

\* hash('sha1', code).slice(0, 12) on the codes of the model
sha1Prefix(code) ==
  LET text == join(code, "")
  IN CASE text = "alt:src:" -> "487c8e465fff"
       [] text = "title:src:" -> "d0ecc7309aed"
       [] text = "alt:</slot>" -> "082427fc8d1d"
       [] text = "title:</slot>" -> "7ed5482b4c84"
       [] text = "alt:</MDCSlot>" -> "80bddd9e52b7"
       [] text = "title:</MDCSlot>" -> "21813c0d7653"

\* component.split('/').pop()?.replace(/\./g, '_')
fileKey(component) == join(component[Len(component)], "_")

\* cacheCode for the key of index.ts lines 27-28: the content of the file
cacheCodeOfFile(fileCode, code) == fileCode

\* line 183: the code hashed is the code after the transformers
cacheCode(fileCode, code) == code

\* line 183
cacheId(component, code) == fileKey(component) \o "--" \o sha1Prefix(code)

\* line 184, with the cacheDir of line 153
cachePathOf(component, code) ==
  ".data/nuxt-component-meta/" \o cacheId(component, code) \o ".json"

\* the name of the prop a piece of code declares, "" when it declares none
propName(piece) ==
  CASE piece = "alt:" -> "alt"
    [] piece = "title:" -> "title"
    [] piece = "src:" -> "src"
    [] OTHER -> ""

\* lines 211-224: the meta of the code given to the checker
parseComponent(code) ==
  LET declared == SelectSeq(code, LAMBDA piece : propName(piece) # "")
  IN obj(<< <<"props",
              arr([i \in 1..Len(declared) |->
                     obj(<< <<"name", str(propName(declared[i]))>> >>)])>> >>)

\* cacheEntry without cachedAt
cacheEntryOfMeta(now, componentMeta) == componentMeta

\* line 194: { cachedAt: Date.now(), ...componentMeta }
cacheEntry(now, componentMeta) ==
  obj(<< <<"cachedAt", num(now)>> >>
      \o SelectSeq(componentMeta[2], LAMBDA pair : pair[1] # "cachedAt"))

\* the greatest value of Date.now()
MaxNow == 2

\* lines 148-202: one call; now is what Date.now() returns in it
getComponentMeta(component, cache, transformers, now) ==
  /\ IF component \notin DOMAIN files
     THEN /\ call' = [component |-> component, cache |-> cache,
                      transformers |-> transformers, code |-> <<>>,
                      before |-> cached, checkers |-> 0, meta |-> null,
                      error |-> "Error reading file"]
          /\ UNCHANGED <<cacheFiles, cached>>
     ELSE
       LET code == transform(<<"default">> \o transformers, files[component])
           cachePath == cachePathOf(component,
                                    cacheCode(files[component], code))
           componentMeta == parseComponent(code)
       IN IF cache /\ cachePath \in DOMAIN cacheFiles
          THEN /\ call' = [component |-> component, cache |-> cache,
                           transformers |-> transformers, code |-> code,
                           before |-> cached, checkers |-> 0,
                           meta |-> cacheFiles[cachePath], error |-> ""]
               /\ cached' = cached \cup {<<fileKey(component), code>>}
               /\ UNCHANGED cacheFiles
          ELSE /\ call' = [component |-> component, cache |-> cache,
                           transformers |-> transformers, code |-> code,
                           before |-> cached, checkers |-> 1,
                           meta |-> componentMeta, error |-> ""]
               /\ cacheFiles' =
                    IF cache
                    THEN [path \in DOMAIN cacheFiles \cup {cachePath} |->
                            IF path = cachePath
                            THEN cacheEntry(now, componentMeta)
                            ELSE cacheFiles[path]]
                    ELSE cacheFiles
               /\ cached' = IF cache
                            THEN cached \cup {<<fileKey(component), code>>}
                            ELSE cached
  /\ UNCHANGED <<pc, jsonString, heap, rootValue, hashCache, hashRegistry,
                 valueToHash, stringRegistry, sortedDuplicates,
                 serializingValues, lines, error, objects, earlier, stats,
                 content, optimised>>
  /\ UNCHANGED schemaVars

GetComponentMeta ==
  \E component \in Components, cache \in BOOLEAN,
     transformers \in TransformerLists, now \in 1..MaxNow :
    getComponentMeta(component, cache, transformers, now)

CacheSpec == Init /\ [][GetComponentMeta]_vars


(***************************************************************************)
(* Calls with texts whose values share one digest: the four arrays of two  *)
(* strings out of "costarring" and "liquid", which fnv1aHash does not tell *)
(* apart.                                                                  *)
(***************************************************************************)
ChainParts ==
  <<arr(<<str("costarring"), str("costarring")>>),
    arr(<<str("costarring"), str("liquid")>>),
    arr(<<str("liquid"), str("costarring")>>),
    arr(<<str("liquid"), str("liquid")>>)>>

ChainParse ==
  \E n \in 0..MaxWidth :
    \E pick \in [1..n -> 1..Len(ChainParts)] :
      \E text \in Roots(ChainParts, pick) : deduplicateJSON(text)

ChainSpec ==
  Init /\ [][\/ ChainParse
             \/ Traverse
             \/ AnalyzeDependencies
             \/ TopologicalSort
             \/ AssignRefNames
             \/ GenerateCode
             \/ Return]_vars

(***************************************************************************)
(* topologicalSort on the registries it can be given: three entries, each  *)
(* with a count and with dependencies among the keys of the others.        *)
(* Nothing of the module writes to the console unless DEBUG_TIMING is set  *)
(* (lines 463, 493-502), and here it is not set.                           *)
(***************************************************************************)
\* a registry is made: its entries, their counts and their dependencies
DrawRegistry ==
  /\ pc = "idle"
  /\ \E counts \in [1..3 -> {threshold - 1, threshold}],
        dependencies \in [1..3 -> {<<>>, <<1>>, <<2>>, <<1, 2>>, <<2, 1>>}] :
       LET key(i) == "h" \o ToString(i)
           \* the k-th of the two other entries
           other(i, k) == key(1 + ((i + k - 1) % 3))
       IN hashRegistry' =
            [i \in 1..3 |->
               [newEntry(key(i), <<"ref", i>>) EXCEPT
                  !.count = counts[i],
                  !.dependencies = [k \in 1..Len(dependencies[i]) |->
                                      other(i, dependencies[i][k])]]]
  /\ pc' = "analyzed"
  /\ UNCHANGED <<jsonString, heap, rootValue, hashCache, valueToHash,
                 stringRegistry, sortedDuplicates, serializingValues, lines,
                 error, objects>>
  /\ UNCHANGED callerVars
  /\ UNCHANGED stats

SortSpec == Init /\ [][DrawRegistry \/ TopologicalSort]_vars

(***************************************************************************)
(* propsToJsonSchema.  A type is the sequence of its tokens, and           *)
(* type.includes(t) asks for the token t.  A schema of vue-component-meta  *)
(* is a record: typeof is "string" (text holds the tokens), "object" (kind *)
(* and schema hold its fields, text its type) or "null".  A JSON Schema is *)
(* a function of its keys, and its properties and those of a prop are      *)
(* sequences of <<key, value>> in the order of Object.keys; no prop of the *)
(* model has a default, a tag or a name that is an array index.            *)
(***************************************************************************)
\* the greatest number of props of a component
MaxProps == 3

\* the props of the components: those of the tests of the function prop
\* filtering, and props that only one of the conditions of isFunctionProp
\* tells from data
SchemaProps ==
  LET quote == "\""
      schemaText(tokens) ==
        [typeof |-> "string", text |-> tokens, kind |-> "", schema |-> <<>>]
      schemaObject(kind, type, members) ==
        [typeof |-> "object", text |-> type, kind |-> kind, schema |-> members]
      schemaNull ==
        [typeof |-> "null", text |-> <<>>, kind |-> "", schema |-> <<>>]
      handler == <<"(event:", "MouseEvent", "):", "void">>
      event == schemaObject("event", handler, <<>>)
      optional(type, members) ==
        schemaObject("enum", type, <<schemaText(<<"undefined">>)>> \o members)
      prop(name, description, required, type, schema) ==
        [name |-> name, description |-> description, required |-> required,
         type |-> type, schema |-> schema]
      colors == <<quote, "error", quote, "|", quote, "primary", quote, "|",
                  "undefined">>
      clicks == <<"(", "(event:", "MouseEvent", ")", "=>", "void", ")", "|",
                  "undefined">>
      changes == <<"(", "(value:", "string", ")", "=>", "void", ")", "|",
                   "undefined">>
  IN { prop("color", "The color of the button", FALSE, colors,
            optional(colors, <<schemaText(<<quote, "error", quote>>),
                               schemaText(<<quote, "primary", quote>>)>>)),
       prop("onClick", "", FALSE, clicks,
            optional(clicks, <<event,
                               schemaObject("array", <<"Handler", "[]">>,
                                            <<event>>)>>)),
       prop("onSubmit", "", TRUE,
            <<"(event:", "SubmitEvent", ")", "=>", "void">>, schemaNull),
       prop("onChange", "", FALSE, changes,
            optional(changes, <<schemaText(<<"string">>)>>)),
       prop("data", "", TRUE, <<"string", "|", "undefined">>,
            optional(<<"string", "|", "undefined">>,
                     <<schemaText(<<"string">>)>>)),
       prop("count", "The count", TRUE, <<"number">>,
            schemaText(<<"number">>)),
       prop("callback", "", TRUE, <<"(", ")", "=>", "unknown">>, schemaNull),
       prop("dispose", "", FALSE, <<"void">>, schemaText(<<"void">>)),
       prop("onEvent", "", TRUE, <<"(event:", "Event", "):", "unknown">>,
            schemaNull),
       prop("onInput", "", TRUE, <<"Handler", "|", "undefined">>,
            optional(<<"Handler", "|", "undefined">>, <<event>>)),
       prop("onItems", "", TRUE, <<"Handler", "[]", "|", "undefined">>,
            optional(<<"Handler", "[]", "|", "undefined">>,
                     <<schemaObject("array", <<"Handler", "[]">>,
                                    <<event>>)>>)) }

\* lines 526-557
isFunctionProp(type, schema) ==
  \/ SeqContains(type, "=>")
  \/ SeqContains(type, "(event:")
  \/ SeqContains(type, "void")
  \/ /\ schema.typeof = "object"
     /\ schema.kind = "enum"
     /\ schema.schema # <<>>
     /\ \E i \in 1..Len(schema.schema) :
          LET value == schema.schema[i]
          IN /\ value.typeof = "object"
             /\ \/ value.kind = "event"
                \/ /\ value.kind = "array"
                   /\ value.schema # <<>>
                   /\ \E j \in 1..Len(value.schema) :
                        /\ value.schema[j].typeof = "object"
                        /\ value.schema[j].kind = "event"

\* lines 63-195 for the types and schemas of the model: the result is
\* [defined, keys], undefined or an object; a prop that is no function is an enum of string literals or
\* of primitive types (lines 77-79, 358-511), or of a simple type (line 194,
\* 238-261)
convertVueTypeToJsonSchema(vueType, vueSchema) ==
  LET quote == "\""
      values == SelectSeq(vueSchema.schema,
                          LAMBDA v : v.text # <<"undefined">>)
      isStringLiteral(v) ==
        /\ v.typeof = "string"
        /\ Len(v.text) >= 2
        /\ Head(v.text) = quote
        /\ v.text[Len(v.text)] = quote
      isPrimitive(v) ==
        /\ v.typeof = "string"
        /\ v.text \in {<<"string">>, <<"number">>, <<"boolean">>, <<"symbol">>}
      literals == SelectSeq(values, isStringLiteral)
      primitives == SelectSeq(values, isPrimitive)
      isEnumType ==
        \/ /\ vueSchema.typeof = "object"
           /\ vueSchema.kind = "enum"
           /\ vueSchema.schema # <<>>
           /\ Len(literals) > 0 \/ Len(primitives) > 0
        \/ SeqContains(vueType, quote) /\ SeqContains(vueType, "|")
      \* value.slice(1, -1)
      enumValues == [i \in 1..Len(literals) |->
                       join(SubSeq(literals[i].text, 2,
                                   Len(literals[i].text) - 1), "")]
      typeName(v) == IF v.text = <<"symbol">> THEN "string" ELSE v.text[1]
      convertSimpleType(type) ==
        IF type \in {<<"string">>, <<"symbol">>}
        THEN << <<"type", <<"string">> >> >>
        ELSE IF type \in {<<"number">>, <<"boolean">>, <<"object">>,
                          <<"array">>, <<"null">>}
        THEN << <<"type", type>> >>
        ELSE <<>>
      defined(keys) == [defined |-> TRUE, keys |-> keys]
  IN IF isFunctionProp(vueType, vueSchema)
     THEN [defined |-> FALSE, keys |-> <<>>]
     ELSE IF isEnumType
     THEN IF Len(literals) > 0
          THEN defined(<< <<"enum", enumValues>>, <<"type", <<"string">> >> >>)
          ELSE defined(<< <<"type", <<typeName(primitives[1])>> >> >>)
     ELSE defined(convertSimpleType(vueType))

RECURSIVE propsToJsonSchemaRequiredFirst(_)
\* propsToJsonSchema with the push of line 52 before the test of line 27
propsToJsonSchemaRequiredFirst(list) ==
  IF list = <<>>
  THEN [key \in {"type", "properties"} |->
          IF key = "type" THEN "object" ELSE <<>>]
  ELSE
    LET schema == propsToJsonSchemaRequiredFirst(
                    SubSeq(list, 1, Len(list) - 1))
        prop == list[Len(list)]
        propType == convertVueTypeToJsonSchema(prop.type, prop.schema)
        required == (IF "required" \in DOMAIN schema THEN schema["required"]
                     ELSE <<>>)
                    \o (IF prop.required THEN <<prop.name>> ELSE <<>>)
        properties ==
          IF ~propType.defined THEN schema["properties"]
          ELSE Append(schema["properties"], <<prop.name, propType.keys>>)
    IN [key \in {"type", "properties"}
                  \cup (IF required # <<>> THEN {"required"} ELSE {}) |->
          CASE key = "type" -> "object"
            [] key = "properties" -> properties
            [] key = "required" -> required]

RECURSIVE propsToJsonSchema(_)
\* lines 9-61: the schema after the loop has taken the props of the list,
\* the last of them last, and line 56 has deleted an empty required
propsToJsonSchema(list) ==
  IF list = <<>>
  THEN [key \in {"type", "properties"} |->
          IF key = "type" THEN "object" ELSE <<>>]
  ELSE
    LET schema == propsToJsonSchema(SubSeq(list, 1, Len(list) - 1))
        prop == list[Len(list)]
        propType == convertVueTypeToJsonSchema(prop.type, prop.schema)
        \* lines 17-22 and 31: the description, when it is not empty, and
        \* the keys of the type
        propSchema ==
          (IF prop.description # ""
           THEN << <<"description", <<prop.description>> >> >> ELSE <<>>)
          \o propType.keys
        before == schema["properties"]
        \* line 47: the key keeps its place when the object has it already
        properties ==
          IF \E i \in 1..Len(before) : before[i][1] = prop.name
          THEN [i \in 1..Len(before) |->
                  IF before[i][1] = prop.name THEN <<prop.name, propSchema>>
                  ELSE before[i]]
          ELSE Append(before, <<prop.name, propSchema>>)
        required == (IF "required" \in DOMAIN schema THEN schema["required"]
                     ELSE <<>>)
                    \o (IF prop.required THEN <<prop.name>> ELSE <<>>)
    IN IF ~propType.defined THEN schema
       ELSE [key \in {"type", "properties"}
                       \cup (IF required # <<>> THEN {"required"} ELSE {}) |->
               CASE key = "type" -> "object"
                 [] key = "properties" -> properties
                 [] key = "required" -> required]

\* the call of propsToJsonSchema for the props of a component
PropsToJsonSchema ==
  /\ DOMAIN jsonSchema = {}
  /\ \E n \in 0..MaxProps :
       \E list \in [1..n -> SchemaProps] :
         \* the props of a component have different names
         /\ \A i, j \in 1..n : list[i].name = list[j].name => i = j
         /\ props' = list
         /\ jsonSchema' = propsToJsonSchema(list)
  /\ UNCHANGED <<pc, jsonString, heap, rootValue, hashCache, hashRegistry,
                 valueToHash, stringRegistry, sortedDuplicates,
                 serializingValues, lines, error, objects, earlier, stats,
                 content, optimised, cacheFiles, call, cached, console>>

SchemaSpec == Init /\ [][PropsToJsonSchema]_vars

(***************************************************************************)
(* VERIFICATION                                                            *)
(* What the properties are stated with: deep equality and occurrence       *)
(* counts of JSON values, and the evaluation of a generated module.        *)
(***************************************************************************)
isComposite(t) == t[1] = "arr" \/ t[1] = "obj"

RECURSIVE jsonEqual(_, _)
\* deep equality of two JSON values: arrays by position, objects by key
jsonEqual(a, b) ==
  IF a[1] # b[1] THEN FALSE
  ELSE IF a[1] = "arr"
  THEN /\ Len(a[2]) = Len(b[2])
       /\ \A i \in 1..Len(a[2]) : jsonEqual(a[2][i], b[2][i])
  ELSE IF a[1] = "obj"
  THEN /\ Len(a[2]) = Len(b[2])
       /\ \A i \in 1..Len(a[2]) :
            \E j \in 1..Len(b[2]) :
              a[2][i][1] = b[2][j][1] /\ jsonEqual(a[2][i][2], b[2][j][2])
  ELSE a[2] = b[2]

childrenOf(t) ==
  IF t[1] = "arr" THEN t[2]
  ELSE IF t[1] = "obj" THEN [i \in 1..Len(t[2]) |-> t[2][i][2]]
  ELSE <<>>

RECURSIVE subvalues(_)
\* every value of the tree, the root first, one element per occurrence
subvalues(t) ==
  <<t>> \o concat([i \in 1..Len(childrenOf(t)) |-> subvalues(childrenOf(t)[i])])

\* the proper descendants of a value
descendants(t) == Tail(subvalues(t))

\* the number of occurrences of a value deep-equal to v in the tree t
occurrences(t, v) == Len(SelectSeq(subvalues(t), LAMBDA u : jsonEqual(u, v)))

RECURSIVE heapText(_, _)
\* the JSON value an object of the heap stands for
heapText(h, v) ==
  IF ~isRef(v) THEN v
  ELSE LET node == h[v[2]]
       IN IF node.isArray
          THEN <<"arr", [i \in 1..Len(node.vals) |-> heapText(h, node.vals[i])]>>
          ELSE <<"obj", [i \in 1..Len(node.vals) |->
                           <<node.keys[i], heapText(h, node.vals[i])>>]>>

\* positions of the lines of a kind
linesOfKind(kind) == {i \in 1..Len(lines) : lines[i].kind = kind}

\* the string table of the module: its entries in order
stringTable ==
  [i \in 1..Cardinality(linesOfKind("tableEntry")) |->
     lines[CHOOSE j \in linesOfKind("tableEntry") :
             Cardinality({k \in linesOfKind("tableEntry") : k < j}) = i - 1].ast[2]]

failure == <<"error", 0>>

RECURSIVE hasFailure(_)
hasFailure(t) ==
  \/ t[1] = "error"
  \/ \E i \in 1..Len(childrenOf(t)) : hasFailure(childrenOf(t)[i])

RECURSIVE evaluate(_, _, _)
\* the value of an expression of the module, given the string table and
\* the constants declared so far (env: a sequence of <<name, value>>); a
\* name not declared yet or an index outside the table is a failure
evaluate(ast, table, env) ==
  CASE ast[1] = "lit" -> <<"str", ast[2]>>
    [] ast[1] = "sref" ->
         IF ast[2] + 1 \in 1..Len(table) THEN <<"str", table[ast[2] + 1]>>
         ELSE failure
    [] ast[1] = "name" ->
         LET found == SelectSeq(env, LAMBDA e : e[1] = ast[2])
         IN IF Len(found) = 1 THEN found[1][2] ELSE failure
    [] ast[1] = "arr" ->
         <<"arr", [i \in 1..Len(ast[2]) |-> evaluate(ast[2][i], table, env)]>>
    [] ast[1] = "obj" ->
         <<"obj", [i \in 1..Len(ast[2]) |->
                     <<ast[2][i][1], evaluate(ast[2][i][2], table, env)>>]>>
    [] OTHER -> ast

RECURSIVE environment(_)
\* the constants declared by the lines before line n, evaluated in order
environment(n) ==
  IF n <= 1 THEN <<>>
  ELSE LET env == environment(n - 1)
       IN IF lines[n - 1].kind = "declaration"
          THEN Append(env, <<lines[n - 1].name,
                             evaluate(lines[n - 1].ast, stringTable, env)>>)
          ELSE env

\* the value of the expression of line n
lineValue(n) == evaluate(lines[n].ast, stringTable, environment(n))

\* the export default expression of the module, the last one, with every
\* _s[i] and every reference name replaced by what it stands for
exportedLiteral ==
  IF linesOfKind("export") = {} THEN failure
  ELSE lineValue(CHOOSE i \in linesOfKind("export") :
                   \A j \in linesOfKind("export") : j <= i)

RECURSIVE ownProperties(_)
\* the value an object literal evaluates to, as deep equality sees it: a
\* member named __proto__ of an object literal sets the prototype of the
\* object, or nothing, and makes no property of its own
ownProperties(t) ==
  IF t[1] = "arr"
  THEN <<"arr", [i \in 1..Len(t[2]) |-> ownProperties(t[2][i])]>>
  ELSE IF t[1] = "obj"
  THEN LET own == SelectSeq(t[2], LAMBDA m : m[1] # "__proto__")
       IN <<"obj", [i \in 1..Len(own) |->
                      <<own[i][1], ownProperties(own[i][2])>>]>>
  ELSE t

\* the value the module exports
exported == ownProperties(exportedLiteral)

\* C1: the module returned for a JSON text evaluates, with every _s[i] and
\* every reference name resolved, to a value deep-equal to the parsed text.
C1_RoundTrip ==
  pc = "done" => ~hasFailure(exported) /\ jsonEqual(exported, jsonString)

\* the declaration lines whose value is deep-equal to v
declarationsOf(v) ==
  {i \in linesOfKind("declaration") : jsonEqual(lineValue(i), v)}

\* the composite values of the input, one per occurrence
composites == SelectSeq(subvalues(jsonString), isComposite)

\* C2: a composite value that occurs k times in the parsed tree, deep-equal
\* occurrences at every depth counted, has one const declaration when
\* k >= 3 and none when k < 3; nothing else is declared.
C2_ExtractedIffThreshold ==
  pc = "done" =>
    /\ \A n \in 1..Len(composites) :
         Cardinality(declarationsOf(composites[n])) =
           IF occurrences(jsonString, composites[n]) >= 3 THEN 1 ELSE 0
    /\ \A i \in linesOfKind("declaration") :
         \E n \in 1..Len(composites) : jsonEqual(lineValue(i), composites[n])

\* a module made from a tree where one composite value occurs exactly
\* three times and another exactly twice
C2_Witness ==
  /\ pc = "done"
  /\ \E n, m \in 1..Len(composites) :
       /\ occurrences(jsonString, composites[n]) = 3
       /\ occurrences(jsonString, composites[m]) = 2
       /\ Cardinality(declarationsOf(composites[n])) = 1
       /\ declarationsOf(composites[m]) = {}

\* the entries of the registry that are duplicates
duplicateEntries == {i \in 1..Len(hashRegistry) : hashRegistry[i].count >= 3}

\* the value of entry b is nested, at some depth, in the representative
\* value of entry a
nestedIn(b, a) ==
  LET inner == heapText(heap, hashRegistry[b].value)
      outer == descendants(heapText(heap, hashRegistry[a].value))
  IN \E n \in 1..Len(outer) : jsonEqual(outer[n], inner)

\* the lines that declare the reference name of an entry
declarationLinesOf(i) ==
  {n \in linesOfKind("declaration") : lines[n].name = hashRegistry[i].refName}

\* C3: when the value of a duplicate entry B is nested in the
\* representative value of a duplicate entry A, B is declared on an earlier
\* line than A; with {"items": []} and [] both duplicates, the empty array
\* is declared first and the declaration of the object uses its name.
C3_NestedDeclaredFirst ==
  pc = "done" =>
    /\ \A a, b \in duplicateEntries :
         nestedIn(b, a) =>
           /\ declarationLinesOf(a) # {}
           /\ declarationLinesOf(b) # {}
           /\ \A n \in declarationLinesOf(a), m \in declarationLinesOf(b) :
                m < n
    /\ (occurrences(jsonString, items) >= 3) =>
         \E n, m \in linesOfKind("declaration") :
           /\ m < n
           /\ lines[m].ast = <<"arr", <<>> >>
           /\ lines[n].ast = <<"obj", << <<"items", <<"name", lines[m].name>> >> >> >>

\* a module with the declarations of {"items": []} and of [], and of a
\* third value that contains both
C3_Witness ==
  /\ pc = "done"
  /\ occurrences(jsonString, items) >= 3
  /\ \E a, b, c \in duplicateEntries :
       nestedIn(b, a) /\ nestedIn(a, c)

\* the states where the registries of the traversal are filled
traversed == pc \in {"traversed", "analyzed", "sorted", "named", "done"}

\* the entry an object of the tree is counted in
entryOf(id) == regGet(hashRegistry, valueToHash[id])

\* C4: after the traversal every composite value is mapped to an entry
\* whose representative is deep-equal to it, so values that are not
\* deep-equal, equal digests or not, are counted in different entries and
\* get different reference names.
C4_CollisionsKeptApart ==
  traversed =>
    /\ \A id \in DOMAIN valueToHash :
         /\ regHas(hashRegistry, valueToHash[id])
         /\ jsonEqual(heapText(heap, <<"ref", id>>),
                      heapText(heap, entryOf(id).value))
    /\ \A id1, id2 \in DOMAIN valueToHash :
         ~jsonEqual(heapText(heap, <<"ref", id1>>),
                    heapText(heap, <<"ref", id2>>)) =>
           /\ valueToHash[id1] # valueToHash[id2]
           /\ entryOf(id1).refName # "" => entryOf(id1).refName # entryOf(id2).refName

\* two duplicates with the same digest that are not deep-equal, named
C4_Witness ==
  /\ pc = "done"
  /\ \E id1, id2 \in DOMAIN valueToHash :
       /\ hashCache[id1] = hashCache[id2]
       /\ ~jsonEqual(heapText(heap, <<"ref", id1>>),
                     heapText(heap, <<"ref", id2>>))
       /\ entryOf(id1).count >= 3
       /\ entryOf(id2).count >= 3
       /\ entryOf(id1).refName # entryOf(id2).refName
\* the string values of the input, one per occurrence
stringValues ==
  SelectSeq(subvalues(jsonString), LAMBDA v : v[1] = "str")

\* C5: when no composite value and no string occurs three times or more,
\* the module has no line that starts with "const ": it is the comment
\* header and the export default line.
C5_NothingRepeatedNoConst ==
  (/\ pc = "done"
   /\ \A n \in 1..Len(composites) : occurrences(jsonString, composites[n]) < 3
   /\ \A n \in 1..Len(stringValues) :
        occurrences(jsonString, stringValues[n]) < 3)
  => /\ linesOfKind("declaration") = {}
     /\ linesOfKind("tableOpen") = {}
     /\ Len(lines) = 4
     /\ [n \in 1..4 |-> lines[n].kind] = <<"comment", "comment", "blank", "export">>

\* a module made from a tree where a composite value and a string occur
\* twice each and nothing occurs three times
C5_Witness ==
  /\ pc = "done"
  /\ \E n \in 1..Len(composites) : occurrences(jsonString, composites[n]) = 2
  /\ \E n \in 1..Len(stringValues) :
       occurrences(jsonString, stringValues[n]) = 2
  /\ \A n \in 1..Len(composites) : occurrences(jsonString, composites[n]) < 3
  /\ \A n \in 1..Len(stringValues) :
       occurrences(jsonString, stringValues[n]) < 3
  /\ Len(lines) = 4

\* the states where assignRefNames has run
named == pc \in {"named", "done"}

\* C6: the reference names assigned in one call are pairwise distinct, and
\* every sorted duplicate has one.
C6_RefNamesDistinct ==
  named =>
    /\ \A k \in 1..Len(sortedDuplicates) :
         regGet(hashRegistry, sortedDuplicates[k]).refName # ""
    /\ \A i, j \in 1..Len(hashRegistry) :
         (i # j /\ hashRegistry[i].refName # "")
           => hashRegistry[i].refName # hashRegistry[j].refName

\* both semantic names and two counter names are assigned
C6_Witness ==
  /\ pc = "named"
  /\ {"_emptyArray", "_emptyObject", "_ref0", "_ref1"} \subseteq
       {hashRegistry[i].refName : i \in 1..Len(hashRegistry)}

\* the lines of the string table
tableLines ==
  linesOfKind("tableOpen") \cup linesOfKind("tableEntry")
    \cup linesOfKind("tableClose")

\* C7: in every module the lines of the string table come before every
\* const declaration, every declaration before the root, and the last line
\* is the one export default line; for {} it is "export default {};".
C7_Layout ==
  pc = "done" =>
    /\ \A t \in tableLines, d \in linesOfKind("declaration") : t < d
    /\ \A t \in tableLines \cup linesOfKind("declaration") : t < Len(lines)
    /\ linesOfKind("export") = {Len(lines)}
    /\ jsonString = obj(<<>>) => lines[Len(lines)].text = "export default {};"
    /\ jsonString = null => lines[Len(lines)].text = "export default null;"

\* a module with a string table and declarations
C7_Witness ==
  /\ pc = "done"
  /\ tableLines # {}
  /\ linesOfKind("declaration") # {}
  /\ linesOfKind("export") = {Len(lines)}
\* C8: with threshold 2 and the input {"x":{"n":1},"y":{"n":1},"z":{"n":2}},
\* {"n":1} is extracted into one declaration that x and y refer to and
\* {"n":2} stays inline.  The call takes the input and nothing else, and
\* its threshold is the 3 of lines 206, 246, 259, 363, 375 and 423.
C8_ThresholdTwoExtracts ==
  (pc = "done" /\ jsonString = thresholdScenario) =>
    \E d \in linesOfKind("declaration") :
      /\ linesOfKind("declaration") = {d}
      /\ jsonEqual(lineValue(d), obj(<< <<"n", num(1)>> >>))
      /\ lines[Len(lines)].ast =
           <<"obj", << <<"x", <<"name", lines[d].name>> >>,
                       <<"y", <<"name", lines[d].name>> >>,
                       <<"z", <<"obj", << <<"n", num(2)>> >> >> >> >> >>

RECURSIVE astLiterals(_)
\* the strings an expression holds as quoted literals in value position
astLiterals(ast) ==
  IF ast[1] = "lit" THEN {ast[2]}
  ELSE IF ast[1] = "arr"
  THEN UNION {astLiterals(ast[2][i]) : i \in 1..Len(ast[2])}
  ELSE IF ast[1] = "obj"
  THEN UNION {astLiterals(ast[2][i][2]) : i \in 1..Len(ast[2])}
  ELSE {}

RECURSIVE astIndexes(_)
\* the indexes i of the references _s[i] of an expression
astIndexes(ast) ==
  IF ast[1] = "sref" THEN {ast[2]}
  ELSE IF ast[1] = "arr"
  THEN UNION {astIndexes(ast[2][i]) : i \in 1..Len(ast[2])}
  ELSE IF ast[1] = "obj"
  THEN UNION {astIndexes(ast[2][i][2]) : i \in 1..Len(ast[2])}
  ELSE {}

\* the lines that hold an expression: the declarations and the root
expressionLines == linesOfKind("declaration") \cup linesOfKind("export")

\* C9: a string value with three or more occurrences is in the string table,
\* once, and is written as a quoted literal nowhere in the root or the
\* declarations; every _s[i] names a slot of the table, which holds a
\* string with three or more occurrences, and the module still evaluates to
\* the input, so each _s[i] stands where its string stood; a string with
\* fewer occurrences is not in the table.
C9_StringsByIndex ==
  pc = "done" =>
    /\ \A n \in 1..Len(stringValues) :
         LET s == stringValues[n][2]
             inTable == {i \in 1..Len(stringTable) : stringTable[i] = s}
         IN IF occurrences(jsonString, stringValues[n]) >= 3
            THEN /\ Cardinality(inTable) = 1
                 /\ \A l \in expressionLines : s \notin astLiterals(lines[l].ast)
            ELSE inTable = {}
    /\ \A l \in expressionLines :
         \A i \in astIndexes(lines[l].ast) :
           /\ i + 1 \in 1..Len(stringTable)
           /\ occurrences(jsonString, str(stringTable[i + 1])) >= 3
    /\ (stringTable # <<>>) = (linesOfKind("tableOpen") # {})
    /\ jsonEqual(exportedLiteral, jsonString)

\* a module where a string of the table is used by a declaration and by
\* the root, next to a string that stays a literal
C9_Witness ==
  /\ pc = "done"
  /\ stringTable # <<>>
  /\ \E d \in linesOfKind("declaration") : astIndexes(lines[d].ast) # {}
  /\ astIndexes(lines[Len(lines)].ast) # {}
  /\ \E l \in expressionLines : astLiterals(lines[l].ast) # {}

\* the entries of the string registry that have an index
indexed == {i \in 1..Len(stringRegistry) : stringRegistry[i].index # -1}

\* C10: after generateCode a string entry has an index exactly when its
\* count is 3 or more; the indexes are 0..n-1, each once; and of two
\* entries the one with the higher count has the smaller index.
C10_StringIndexes ==
  pc = "done" =>
    /\ \A i \in 1..Len(stringRegistry) :
         (i \in indexed) <=> (stringRegistry[i].count >= 3)
    /\ {stringRegistry[i].index : i \in indexed} = 0..(Cardinality(indexed) - 1)
    /\ \A i, j \in indexed :
         /\ (i # j) => stringRegistry[i].index # stringRegistry[j].index
         /\ (stringRegistry[i].count > stringRegistry[j].count)
              => stringRegistry[i].index < stringRegistry[j].index

\* of two indexed strings the one met first has the lower count
C10_Witness ==
  /\ pc = "done"
  /\ \E i, j \in indexed :
       /\ i < j
       /\ stringRegistry[i].count < stringRegistry[j].count
       /\ stringRegistry[j].index = 0
\* C11: a call with a text that is not JSON fails at once with the
\* message "Invalid JSON: " and the message of the parse error; it has no
\* output text and nothing was parsed, traversed, hashed or sorted.
C11_ParseFailure ==
  (pc # "idle" /\ ~isJSON(jsonString)) =>
    /\ pc = "failed"
    /\ error = "Invalid JSON: " \o syntaxErrorMessage(jsonString)
    /\ lines = <<>>
    /\ heap = <<>>
    /\ hashCache = <<>>
    /\ hashRegistry = <<>>
    /\ valueToHash = <<>>
    /\ stringRegistry = <<>>
    /\ sortedDuplicates = <<>>

\* the call with the text {not json has failed
C11_Witness ==
  /\ pc = "failed"
  /\ jsonString = <<"invalid", "{not json">>
  /\ error = "Invalid JSON: Unexpected token in JSON: {not json"
RECURSIVE reach(_, _)
\* the objects of ids and those below them
reach(h, ids) ==
  LET below == UNION {{h[id].vals[i][2] :
                         i \in {k \in 1..Len(h[id].vals) :
                                  isRef(h[id].vals[k])}} : id \in ids}
  IN IF below \subseteq ids THEN ids ELSE reach(h, ids \cup below)

\* the types of the values at or below v that are neither null, a boolean,
\* a number, a string, an array nor an object
foreignTypes(h, v) ==
  IF ~isRef(v) THEN {v[1]} \cap {"undefined", "function", "bigint"}
  ELSE UNION {{h[id].vals[i][1] : i \in 1..Len(h[id].vals)} :
                id \in reach(h, {v[2]})}
         \cap {"undefined", "function", "bigint"}

\* the digest computeHash gives the empty object
emptyObjectHash ==
  computeHash(<<[isArray |-> FALSE, keys |-> <<>>, vals |-> <<>>]>>, <<>>,
              <<"ref", 1>>)

\* the call was made with a value in memory and has ended
valueCallEnded ==
  pc \in {"done", "failed"} /\ jsonString[1] = "value"

\* C12: a call whose value holds a value outside null, boolean, number,
\* string, array and object fails with the error that names the type of such
\* a value, and no cached digest counts such a value as an object.
C12_ForeignValueRejected ==
  (valueCallEnded /\ foreignTypes(heap, rootValue) # {}) =>
    /\ pc = "failed"
    /\ \E type \in foreignTypes(heap, rootValue) :
         error = "Cannot serialize type: " \o type
    /\ \A id \in DOMAIN hashCache :
         \A i \in 1..Len(heap[id].vals) :
           heap[id].vals[i][1] = "function" =>
             primitiveHash(heap[id].vals[i]) # emptyObjectHash

\* C13: a call returns the text, or fails with the error, that an earlier
\* call with the same argument, whose objects held what they hold now,
\* returned or failed with, whatever calls were made in between.
C13_Deterministic ==
  (/\ pc \in {"done", "failed"}
   /\ earlier # <<>>
   /\ earlier[1] = jsonString
   /\ earlier[4] = objects) =>
    /\ moduleText = earlier[2]
    /\ error = earlier[3]

\* the positions, in a sequence of values, of the first occurrence of each
\* distinct value
firsts(values) ==
  {n \in 1..Len(values) : \A m \in 1..(n - 1) : ~jsonEqual(values[m], values[n])}

\* the positions of the values that occur three times or more in the input
repeated(values) ==
  {n \in 1..Len(values) : occurrences(jsonString, values[n]) >= 3}

\* C14: the figures of getDeduplicationStats for a text are the number of
\* distinct composite values, the number of those that occur three times or
\* more and the number of their occurrences, and the same three for the
\* strings; the module made from the same text has as many declarations as
\* deduplicatedValues and as many entries in its string table as
\* deduplicatedStrings.
C14_Stats ==
  (pc = "measured" /\ stats # <<>>) =>
    /\ stats.uniqueValues = Cardinality(firsts(composites))
    /\ stats.deduplicatedValues =
         Cardinality(firsts(composites) \cap repeated(composites))
    /\ stats.totalOccurrences = Cardinality(repeated(composites))
    /\ stats.uniqueStrings = Cardinality(firsts(stringValues))
    /\ stats.deduplicatedStrings =
         Cardinality(firsts(stringValues) \cap repeated(stringValues))
    /\ stats.totalStringOccurrences = Cardinality(repeated(stringValues))
    /\ stats.deduplicatedValues = Cardinality(linesOfKind("declaration"))
    /\ stats.deduplicatedStrings = Cardinality(linesOfKind("tableEntry"))

\* the figures of a text where a composite value and a string are
\* extracted, and where another composite value and another string occur
\* twice
C14_Witness ==
  /\ pc = "measured"
  /\ stats # <<>>
  /\ stats.deduplicatedValues >= 1
  /\ stats.uniqueValues > stats.deduplicatedValues + 1
  /\ stats.deduplicatedStrings >= 1
  /\ stats.uniqueStrings > stats.deduplicatedStrings
  /\ \E n \in 1..Len(composites) : occurrences(jsonString, composites[n]) = 2
  /\ \E n \in 1..Len(stringValues) :
       occurrences(jsonString, stringValues[n]) = 2
  /\ linesOfKind("declaration") # {}
  /\ linesOfKind("tableEntry") # {}
\* two objects of the heap with the same keys, inserted in another order,
\* and values that are equal key by key
reordered(i, j) ==
  /\ ~heap[i].isArray
  /\ ~heap[j].isArray
  /\ heap[i].keys # heap[j].keys
  /\ jsonEqual(heapText(heap, <<"ref", i>>), heapText(heap, <<"ref", j>>))

\* C15: two objects with the same keys in another insertion order and
\* deep-equal values have the same digest, are deep-equal for deepEqual and
\* are counted in the same entry of the registry.
C15_KeyOrderIndependent ==
  traversed =>
    \A i, j \in DOMAIN valueToHash :
      reordered(i, j) =>
        /\ computeHash(heap, <<>>, <<"ref", i>>) =
             computeHash(heap, <<>>, <<"ref", j>>)
        /\ hashCache[i] = hashCache[j]
        /\ deepEqual(heap, <<"ref", i>>, <<"ref", j>>)
        /\ valueToHash[i] = valueToHash[j]

\* {"a":1,"b":2} and {"b":2,"a":1} are both in the tree, the second one
\* first, and are counted in one entry
C15_Witness ==
  /\ traversed
  /\ \E i, j \in DOMAIN valueToHash :
       /\ reordered(i, j)
       /\ heap[i].keys = <<"b", "a">>
       /\ heap[j].keys = <<"a", "b">>
       /\ i < j
       /\ valueToHash[i] = valueToHash[j]
       /\ entryOf(i).count >= 2
       /\ entryOf(i).value = <<"ref", i>>
\* the declaration lines of the module, in order
declarations ==
  [k \in 1..Cardinality(linesOfKind("declaration")) |->
     lines[CHOOSE n \in linesOfKind("declaration") :
             Cardinality({m \in linesOfKind("declaration") : m < n}) = k - 1]]

\* the declaration declares the empty array or the empty object
declaresEmpty(d) == d.ast \in {<<"arr", <<>> >>, <<"obj", <<>> >>}

\* the input {"a":[],"b":[],"c":[]}
threeEmptyArrays ==
  obj(<< <<"a", emptyArray>>, <<"b", emptyArray>>, <<"c", emptyArray>> >>)

\* C16: in the order of the declarations, the empty array is declared as
\* _emptyArray, the empty object as _emptyObject and the k-th of the other
\* values as _ref<k-1>; the module of {"a":[],"b":[],"c":[]} declares
\* _emptyArray and nothing else, and its root uses the name three times.
C16_NamingPolicy ==
  pc = "done" =>
    /\ \A k \in 1..Len(declarations) :
         declarations[k].name =
           IF declarations[k].ast = <<"arr", <<>> >> THEN "_emptyArray"
           ELSE IF declarations[k].ast = <<"obj", <<>> >> THEN "_emptyObject"
           ELSE "_ref" \o ToString(Cardinality(
                  {m \in 1..(k - 1) : ~declaresEmpty(declarations[m])}))
    /\ (jsonString = threeEmptyArrays) =>
         /\ Len(declarations) = 1
         /\ declarations[1].text = "const _emptyArray = [];"
         /\ lines[Len(lines)].text =
              "export default {a: _emptyArray, b: _emptyArray, c: _emptyArray};"

\* the module of {"a":[],"b":[],"c":[]}
C16_Witness ==
  /\ pc = "done"
  /\ jsonString = threeEmptyArrays
  /\ Len(declarations) = 1
  /\ declarations[1].name = "_emptyArray"

\* a module that declares both mnemonic names and _ref0 and _ref1 after them
C16_WitnessCounter ==
  /\ pc = "done"
  /\ \E k \in 1..Len(declarations) :
       /\ declaresEmpty(declarations[k])
       /\ \E m \in (k + 1)..Len(declarations) : declarations[m].name = "_ref1"
\* C17: optimiseJSON returns the content as it is when it does not start
\* with 'export default ' or when what follows, less one ';', is not the
\* text of a JSON value, and the module of that value otherwise.
C17_OptimiseContract ==
  optimised =
    IF ~startsWithExportDefault(content) \/ ~parses(strip(content))
    THEN content
    ELSE <<lit(deduplicateJSONResult(strip(content)[1], heap, hashCache,
                                     serializingValues).text)>>

\* C18: a call of optimiseJSON on the content that the call before
\* returned returns that content, however many calls were made before.
C18_Idempotent ==
  [][OptimiseAgain => optimised' = optimised]_vars

\* the content returned is a module with a declaration, and the call on it
\* has returned it again
C18_Witness ==
  /\ content = optimised
  /\ Len(content) = 1
  /\ content[1] # alreadyOptimized
  /\ content[1][1] = "lit"
  /\ \E text \in Contents :
       /\ startsWithExportDefault(text)
       /\ parses(strip(text))
       /\ strip(text)[1] = arr(<<emptyArray, emptyArray, emptyArray>>)
       /\ content = optimiseJSON(text)
\* the value of a key of an object, null when the object has no such key
field(object, key) ==
  IF \E i \in 1..Len(object[2]) : object[2][i][1] = key
  THEN object[2][CHOOSE i \in 1..Len(object[2]) : object[2][i][1] = key][2]
  ELSE null

hasField(object, key) == \E i \in 1..Len(object[2]) : object[2][i][1] = key

\* the names of the props of a meta
propNames(meta) ==
  {field(meta, "props")[2][i][2][1][2][2] :
     i \in 1..Len(field(meta, "props")[2])}

\* a call was made and has returned a meta
returnedMeta == call # <<>> /\ call.error = ""

\* the call was made for a file name and a code that a call with the cache
\* enabled was made for before
cachedBefore == <<fileKey(call.component), call.code>> \in call.before

\* C19: with the cache enabled, a call for a file name and code not cached
\* before creates a checker, returns a meta without cachedAt and leaves a
\* cache file for it; a call for a file name and code cached before
\* creates no checker and returns the entry of the file, with cachedAt;
\* with the cache disabled the meta returned has no cachedAt.
C19_CacheLifecycle ==
  returnedMeta =>
    /\ (call.cache /\ ~cachedBefore) =>
         /\ call.checkers = 1
         /\ ~hasField(call.meta, "cachedAt")
         /\ cachePathOf(call.component, call.code) \in DOMAIN cacheFiles
         /\ hasField(cacheFiles[cachePathOf(call.component, call.code)],
                     "cachedAt")
    /\ (call.cache /\ cachedBefore) =>
         /\ call.checkers = 0
         /\ hasField(call.meta, "cachedAt")
         /\ call.meta = cacheFiles[cachePathOf(call.component, call.code)]
    /\ ~call.cache => ~hasField(call.meta, "cachedAt")

\* a call with the cache enabled has returned the entry that an earlier
\* call, for the same file name and code, left
C19_Witness ==
  /\ returnedMeta
  /\ call.cache
  /\ cachedBefore
  /\ call.checkers = 0
  /\ hasField(call.meta, "cachedAt")
  /\ Cardinality(DOMAIN cacheFiles) >= 2

\* C20: with the cache enabled, a call whose code after the transformers
\* is none of the codes cached before for its file name returns a meta
\* without cachedAt whose props are those of that code, title and not alt
\* when the transformer renamed the prop; a call whose code after the
\* transformers was cached before returns a meta with cachedAt.
C20_KeyOfTransformedCode ==
  (returnedMeta /\ call.cache) =>
    /\ ~cachedBefore =>
         /\ ~hasField(call.meta, "cachedAt")
         /\ propNames(call.meta) =
              {propName(call.code[i]) : i \in 1..Len(call.code)} \ {""}
         /\ (Len(call.transformers) > 0
             /\ call.transformers[1] = "renameProp") =>
              /\ "title" \in propNames(call.meta)
              /\ "alt" \notin propNames(call.meta)
    /\ cachedBefore => hasField(call.meta, "cachedAt")

\* a call with the transformer has returned title and not alt, without
\* cachedAt, after the code of the file without the transformer was cached
C20_Witness ==
  /\ returnedMeta
  /\ call.cache
  /\ call.transformers = <<"renameProp">>
  /\ ~cachedBefore
  /\ <<fileKey(call.component), files[call.component]>> \in call.before
  /\ "title" \in propNames(call.meta)
  /\ "alt" \notin propNames(call.meta)
  /\ ~hasField(call.meta, "cachedAt")

\* a prop that is a function or an event handler, as the type and the
\* schema tell
handler(prop) ==
  \/ \E token \in {"=>", "(event:", "void"} : SeqContains(prop.type, token)
  \/ /\ prop.schema.kind = "enum"
     /\ \E i \in 1..Len(prop.schema.schema) :
          LET member == prop.schema.schema[i]
          IN \/ member.kind = "event"
             \/ /\ member.kind = "array"
                /\ \E j \in 1..Len(member.schema) :
                     member.schema[j].kind = "event"

\* the keys of the properties of the schema, and its required names
propertyNames ==
  [i \in 1..Len(jsonSchema["properties"]) |-> jsonSchema["properties"][i][1]]

requiredNames ==
  IF "required" \in DOMAIN jsonSchema THEN jsonSchema["required"] ELSE <<>>

\* C21: the schema of a list of props has no property and no required name
\* for a prop that is a function or an event handler, and its properties
\* are the other props, in the order of the list.
C21_FunctionPropsLeftOut ==
  DOMAIN jsonSchema # {} =>
    LET kept == SelectSeq(props, LAMBDA prop : ~handler(prop))
    IN /\ \A i \in 1..Len(props) :
            handler(props[i]) =>
              /\ ~SeqContains(propertyNames, props[i].name)
              /\ ~SeqContains(requiredNames, props[i].name)
       /\ propertyNames = [i \in 1..Len(kept) |-> kept[i].name]

\* a required handler that only an array member of its schema tells from
\* data, between two props that are data
C21_Witness ==
  /\ DOMAIN jsonSchema # {}
  /\ Len(props) = 3
  /\ props[1].name = "data"
  /\ props[2].name = "onItems"
  /\ props[2].required
  /\ props[3].name = "color"
  /\ propertyNames = <<"data", "color">>
  /\ requiredNames = <<"data">>

\* the keys of the entries that are candidates, in the order of the registry
candidates ==
  LET kept == SelectSeq(hashRegistry, LAMBDA e : e.count >= 3)
  IN [i \in 1..Len(kept) |-> kept[i].hash]

\* some candidates depend on one another in a circle: each candidate of a
\* set that is not empty has a dependency in the set
cyclic ==
  \E keys \in SUBSET {candidates[i] : i \in 1..Len(candidates)} :
    /\ keys # {}
    /\ \A key \in keys :
         \E d \in 1..Len(regGet(hashRegistry, key).dependencies) :
           regGet(hashRegistry, key).dependencies[d] \in keys

\* the sort has returned every candidate once
sortedOnce ==
  /\ Len(sortedDuplicates) = Len(candidates)
  /\ \A i \in 1..Len(candidates) : SeqContains(sortedDuplicates, candidates[i])

rootChildren == childrenOf(jsonString)
rootCells == heap[rootValue[2]].vals

\* the key of the k-th slot of the chain of a digest, the digest first
chainKey(digest, k) ==
  IF k = 0 THEN digest ELSE digest \o "_c" \o ToString(k)

\* C23: when the children of the root are composite values with one
\* digest, the k-th distinct one of them, in the order they are met, is the
\* representative of the entry with the k-th key of the chain of that
\* digest, the entry counts the children deep-equal to it, and the registry
\* has no other entry than these and that of the root: the probing has
\* ended at a key below the number of entries.
C23_CollisionChain ==
  (/\ traversed
   /\ rootChildren # <<>>
   /\ \A i \in 1..Len(rootCells) :
        isRef(rootCells[i]) /\ hashCache[rootCells[i][2]] = hashCache[rootCells[1][2]])
  =>
    LET digest == hashCache[rootCells[1][2]]
        distinct == firsts(rootChildren)
    IN /\ \A n \in distinct :
            LET key == chainKey(digest, Cardinality({m \in distinct : m < n}))
            IN /\ regHas(hashRegistry, key)
               /\ jsonEqual(heapText(heap, regGet(hashRegistry, key).value),
                            rootChildren[n])
               /\ regGet(hashRegistry, key).count =
                    Cardinality({m \in 1..Len(rootChildren) :
                                   jsonEqual(rootChildren[m], rootChildren[n])})
       /\ Len(hashRegistry) = Cardinality(distinct) + 1

\* three values with one digest that are not deep-equal, and a fourth that
\* is deep-equal to the second: the keys digest, digest_c1 and digest_c2
C23_Witness ==
  /\ pc = "traversed"
  /\ Len(rootChildren) = 4
  /\ Cardinality(firsts(rootChildren)) = 3
  /\ jsonEqual(rootChildren[4], rootChildren[2])
  /\ \A i \in 1..4 : hashCache[rootCells[i][2]] = hashCache[rootCells[1][2]]
  /\ regHas(hashRegistry, chainKey(hashCache[rootCells[1][2]], 2))
  /\ regGet(hashRegistry, chainKey(hashCache[rootCells[1][2]], 1)).count = 2

\* the objects at or below the root that hold themselves, directly or
\* through the objects below them
selfHolding ==
  {id \in reach(heap, {rootValue[2]}) :
     \E i \in 1..Len(heap[id].vals) :
       isRef(heap[id].vals[i]) /\ id \in reach(heap, {heap[id].vals[i][2]})}

\* C24: a call with a value in memory that holds itself, directly or
\* through the values below it, does not end by the exhaustion of the
\* stack: it returns a module, or fails with an error of the module.
C24_CycleSafe ==
  (valueCallEnded /\ isRef(rootValue) /\ selfHolding # {}) =>
    error # "Maximum call stack size exceeded"

\* C25: a call with a value in memory returns the text that the call
\* returns when the module-level cache of digests is empty, whatever the
\* earlier calls have left in the cache and whatever the caller has
\* assigned to the objects since.
C25_CacheNotReliedOn ==
  (pc = "done" /\ jsonString[1] = "value") =>
    moduleText = deduplicateJSONResult(jsonString, heap, <<>>,
                                       serializingValues).text

RECURSIVE astNames(_)
\* the reference names an expression uses
astNames(ast) ==
  IF ast[1] = "name" THEN {ast[2]}
  ELSE IF ast[1] = "arr"
  THEN UNION {astNames(ast[2][i]) : i \in 1..Len(ast[2])}
  ELSE IF ast[1] = "obj"
  THEN UNION {astNames(ast[2][i][2]) : i \in 1..Len(ast[2])}
  ELSE {}

\* C26: the declaration of a duplicate entry holds the literal of its
\* representative value and not the entry's own name: no line reads
\* const N = N; and no right-hand side uses the name it declares.
C26_OwnNameNotUsed ==
  pc = "done" =>
    \A n \in linesOfKind("declaration") :
      /\ lines[n].text # "const " \o lines[n].name \o " = " \o lines[n].name \o ";"
      /\ lines[n].ast[1] \in {"arr", "obj"}
      /\ lines[n].name \notin astNames(lines[n].ast)

\* a module whose root expression uses the name of a declaration whose
\* right-hand side uses the name of another declaration
C26_Witness ==
  /\ pc = "done"
  /\ \E n, m \in linesOfKind("declaration") :
       /\ lines[m].name \in astNames(lines[n].ast)
       /\ \E x \in linesOfKind("export") : lines[n].name \in astNames(lines[x].ast)

RECURSIVE paths(_, _, _)
\* the number of paths that lead from the value v to the object id
paths(h, v, id) ==
  IF ~isRef(v) THEN 0
  ELSE IF v[2] = id THEN 1
  ELSE sumOver([i \in 1..Len(h[v[2]].vals) |-> paths(h, h[v[2]].vals[i], id)])

\* the objects of the value passed that are reached by three paths or more
aliased ==
  {id \in DOMAIN valueToHash : paths(heap, rootValue, id) >= 3}

\* C27: the traversal registers every array and object of the value once,
\* however many paths lead to it: the count of an entry is the number of
\* distinct objects with its key, with one location each, and an object
\* reached by three paths or more that equals no other object of the value
\* has the count 1 and is not declared.
C27_AliasCountedOnce ==
  (traversed /\ isRef(rootValue)) =>
    /\ DOMAIN valueToHash = reach(heap, {rootValue[2]})
    /\ \A i \in 1..Len(hashRegistry) :
         /\ hashRegistry[i].count =
              Cardinality({id \in DOMAIN valueToHash :
                             valueToHash[id] = hashRegistry[i].hash})
         /\ Len(hashRegistry[i].locations) = hashRegistry[i].count
    /\ \A id \in aliased :
         (\A other \in DOMAIN valueToHash \ {id} :
            ~deepEqual(heap, <<"ref", other>>, <<"ref", id>>)) =>
           /\ entryOf(id).count = 1
           /\ entryOf(id).refName = ""
           /\ ~SeqContains(sortedDuplicates, valueToHash[id])

\* the module written for the array that holds one object three times
C27_Witness ==
  /\ pc = "done"
  /\ jsonString = <<"value", <<"ref", Len(heldObjects)>> >>
  /\ aliased # {}
  /\ \A id \in aliased : entryOf(id).count = 1
  /\ moduleText # ""

\* the names declared by the declarations before line n
declaredBefore(n) ==
  {lines[m].name : m \in {k \in linesOfKind("declaration") : k < n}}

\* C28: every reference name in the right-hand side of a declaration or in
\* the root expression is declared on an earlier line of the same module,
\* and every _s[i] follows the string table and names one of its slots.
C28_NoDanglingReference ==
  pc = "done" =>
    \A n \in expressionLines :
      /\ astNames(lines[n].ast) \subseteq declaredBefore(n)
      /\ \A i \in astIndexes(lines[n].ast) :
           /\ i \in 0..(Len(stringTable) - 1)
           /\ \E open, close \in 1..(n - 1) :
                /\ lines[open].kind = "tableOpen"
                /\ lines[close].kind = "tableClose"
                /\ close = open + Len(stringTable) + 1

\* a module in which a declaration uses a slot of the string table,
\* another declaration uses the name the first declares, and the root uses
\* a declared name
C28_Witness ==
  /\ pc = "done"
  /\ \E n, m \in linesOfKind("declaration") :
       /\ lines[m].name \in astNames(lines[n].ast)
       /\ astIndexes(lines[m].ast) # {}
  /\ \E x \in linesOfKind("export") : astNames(lines[x].ast) # {}

\* C29: in the module written for a JSON text every declared constant is
\* used, by the right-hand side of a later declaration or by the root
\* expression, and so is every slot of the string table.
C29_NoDeadDeclaration ==
  (pc = "done" /\ jsonString[1] # "value") =>
    /\ \A n \in linesOfKind("declaration") :
         \E m \in expressionLines :
           m > n /\ lines[n].name \in astNames(lines[m].ast)
    /\ \A i \in 0..(Len(stringTable) - 1) :
         \E m \in expressionLines : i \in astIndexes(lines[m].ast)

\* a module with a declared constant that the root expression does not
\* use: all the occurrences of its value lie inside other declared values
C29_Witness ==
  /\ pc = "done"
  /\ jsonString[1] # "value"
  /\ \E n \in linesOfKind("declaration"), x \in linesOfKind("export") :
       /\ lines[n].name \notin astNames(lines[x].ast)
       /\ \E m \in linesOfKind("declaration") :
            lines[n].name \in astNames(lines[m].ast)

\* C30: no value is marked as being serialized when no call is executing:
\* what line 442 adds, line 444 or the failure of the call removes.
C30_SerializingEmptyBetweenCalls ==
  pc = "idle" => serializingValues = {}

====
